---- MODULE Spec2Model ----
(***************************************************************************)
(* DoIP server emulator (src/doip_server.py): the DoIPServer object, its   *)
(* TCP accept loop, its per-client handler threads, its UDP receive loop   *)
(* and the UDS responder, as a state machine.                              *)
(*                                                                         *)
(* Bytes are naturals 0..255, byte strings are sequences of bytes, text    *)
(* strings are sequences of one-character strings.                         *)
(***************************************************************************)
EXTENDS Integers, Sequences, FiniteSets, TLC

\* ------------------------------------------------------------------ bounds

\* connections the peers open over the life of the server object
MaxConns == 2
\* frames one peer sends on one connection
MaxFrames == 2
\* start_server / stop_server calls the embedder makes
MaxCalls == 3
\* datagrams received on the UDP socket
MaxDatagrams == 2
\* start_server / stop_server calls in the single-session specification
SessionCalls == 2
MaxMessages == 3
MaxInits == 2

\* --------------------------------------------------------- program constants

DOIP_HEADER_SIZE == 8
DOIP_VERSION == 3
DOIP_INVERSE_VERSION == 252
DOIP_VEHICLE_IDENTIFICATION_REQUEST == 1
DOIP_VEHICLE_IDENTIFICATION_RESPONSE == 4
DOIP_ROUTING_ACTIVATION_REQUEST == 5
DOIP_ROUTING_ACTIVATION_RESPONSE == 6
DOIP_DIAGNOSTIC_MESSAGE == 32769
DOIP_DIAGNOSTIC_MESSAGE_ACK == 32770
\* defaults of DoIPServer.__init__: 0x1001, 0x1FFF, 0x0E80
server_addr == 4097
server_addr_func == 8191
client_addr == 3712

\* ------------------------------------------------------------ byte strings

\* Python slice s[i:j] (0-based, j exclusive, clipped to the length)
Slice(s, i, j) == SubSeq(s, i + 1, IF j < Len(s) THEN j ELSE Len(s))

\* Python slice s[i:]
SliceFrom(s, i) == SubSeq(s, i + 1, Len(s))

\* struct.pack('>H', x)
pack_H(x) == <<(x \div 256) % 256, x % 256>>

\* struct.unpack('>H', b)[0]
unpack_H(b) == b[1] * 256 + b[2]

\* struct.pack('>BBHI', v, iv, t, n)
pack_BBHI(v, iv, t, n) ==
    <<v, iv>> \o pack_H(t) \o
    <<(n \div 16777216) % 256, (n \div 65536) % 256, (n \div 256) % 256, n % 256>>

\* struct.unpack('>BBHI', h) of an 8-byte header
unpack_BBHI(h) ==
    [version |-> h[1], inv_version |-> h[2],
     payload_type |-> unpack_H(<<h[3], h[4]>>),
     payload_length |-> ((h[5] * 256 + h[6]) * 256 + h[7]) * 256 + h[8]]

\* ------------------------------------------------------------ hex strings

HexLower == <<"0", "1", "2", "3", "4", "5", "6", "7",
              "8", "9", "a", "b", "c", "d", "e", "f">>
HexUpper == <<"0", "1", "2", "3", "4", "5", "6", "7",
              "8", "9", "A", "B", "C", "D", "E", "F">>

\* str.upper() on one character of the alphabet the catalog uses
UpperChar(ch) ==
    IF \E i \in 11..16 : HexLower[i] = ch
    THEN HexUpper[CHOOSE i \in 11..16 : HexLower[i] = ch]
    ELSE IF ch = "z" THEN "Z" ELSE ch

\* str.upper()
Upper(s) == [i \in 1..Len(s) |-> UpperChar(s[i])]

\* bytes.hex(): two lowercase digits per byte
RECURSIVE BytesHex(_)
BytesHex(b) ==
    IF b = <<>> THEN <<>>
    ELSE <<HexLower[(b[1] \div 16) + 1], HexLower[(b[1] % 16) + 1]>> \o BytesHex(Tail(b))

IsHexChar(ch) == \E i \in 1..16 : HexLower[i] = ch \/ HexUpper[i] = ch

HexVal(ch) == (CHOOSE i \in 1..16 : HexLower[i] = ch \/ HexUpper[i] = ch) - 1

\* bytes.fromhex(s): whitespace between byte pairs is skipped; an odd digit
\* count or a non-hex character raises ValueError
RECURSIVE fromhex(_)
fromhex(s) ==
    IF s = <<>> THEN [ok |-> TRUE, data |-> <<>>]
    ELSE IF s[1] = " " THEN fromhex(Tail(s))
    ELSE IF Len(s) < 2 \/ ~IsHexChar(s[1]) \/ ~IsHexChar(s[2])
         THEN [ok |-> FALSE, data |-> <<>>]
    ELSE LET rest == fromhex(SubSeq(s, 3, Len(s)))
         IN  IF rest.ok
             THEN [ok |-> TRUE,
                   data |-> <<HexVal(s[1]) * 16 + HexVal(s[2])>> \o rest.data]
             ELSE rest

\* -------------------------------------------------------- response catalog

\* the configuration documents the constructor is given: a file that is
\* missing, a file that is not JSON, or a list of items; an item is a function
\* whose domain holds the keys its JSON object has
Item(req, res) == [k \in {"req", "res"} |-> IF k = "req" THEN req ELSE res]

List(items) == [kind |-> "list", items |-> items]

DocMissing == [kind |-> "FileNotFound", items |-> <<>>]
DocNotJson == [kind |-> "JSONDecodeError", items |-> <<>>]
DocEmpty == List(<<>>)
DocHit == List(<<Item(<<"2", "2", "f", "1", "9", "0">>,
                      <<"6", "2", "f", "1", "9", "0", "4", "1", "4", "2", "4", "3">>)>>)
DocTesterPresent == List(<<Item(<<"3", "E", "8", "0">>, <<"7", "E", "8", "0">>),
                           Item(<<"1", "0", "0", "3">>, <<"5", "0", "0", "3">>),
                           Item(<<"1", "0", "0", "3">>,
                                <<"5", "0", " ", "0", "3", " ", "A", "A">>)>>)
DocNonHex == List(<<Item(<<"2", "2", "F", "1", "9", "0">>, <<"6", "2", "z", "z">>)>>)
DocOddRes == List(<<Item(<<"1", "0", "0", "3">>, <<"5", "0", "0">>)>>)
DocEmptyRes == List(<<Item(<<"1", "0", "0", "3">>, <<>>)>>)
DocNoRes == List(<<Item(<<"1", "0", "0", "3">>, <<"5", "0", "0", "3">>),
                   [k \in {"req"} |-> <<"2", "2", "F", "1", "9", "0">>]>>)

ConfigDocs == {DocMissing, DocNotJson, DocEmpty, DocHit, DocTesterPresent,
               DocNonHex, DocOddRes, DocEmptyRes, DocNoRes}

EmptyConfig == [k \in {} |-> <<>>]

\* the for loop of load_response_config over the first n items; ok is FALSE
\* when an item lacks a key (KeyError)
RECURSIVE config_dict(_, _)
config_dict(items, n) ==
    IF n = 0 THEN [ok |-> TRUE, dict |-> EmptyConfig]
    ELSE LET before == config_dict(items, n - 1)
             item == items[n]
         IN  IF ~before.ok \/ ~({"req", "res"} \subseteq DOMAIN item)
             THEN [ok |-> FALSE, dict |-> EmptyConfig]
             ELSE LET req_hex == Upper(item["req"])
                      res_hex == Upper(item["res"])
                  IN  [ok |-> TRUE,
                       dict |-> [k \in (DOMAIN before.dict) \cup {req_hex} |->
                                    IF k = req_hex THEN res_hex ELSE before.dict[k]]]

\* a slip: the items loaded before the failing one are kept
load_response_config_keeps_partial(doc) ==
    IF doc.kind # "list" THEN EmptyConfig
    ELSE LET d == config_dict(doc.items, Len(doc.items))
         IN  IF d.ok THEN d.dict
             ELSE config_dict(doc.items, Len(doc.items) - 1).dict

\* DoIPServer.load_response_config: every exception leaves an empty catalog
load_response_config(doc) ==
    IF doc.kind # "list" THEN EmptyConfig
    ELSE LET d == config_dict(doc.items, Len(doc.items))
         IN  IF d.ok THEN d.dict ELSE EmptyConfig

\* ------------------------------------------------------------ UDS responder

\* what a Python function yields: bytes, None, or an exception it raises
Bytes(b) == [kind |-> "bytes", data |-> b]
None == [kind |-> "None", data |-> <<>>]
Raise(e) == [kind |-> e, data |-> <<>>]

\* request_data[0] == 0x31 and request_data[1] == 0x01 and request_data[2] == b2
\* and request_data[3] == b3, evaluated left to right: "yes", "no", or
\* "IndexError" when an index that had to be read is past the end
routine_match(request_data, b2, b3) ==
    IF request_data[1] # 49 THEN "no"
    ELSE IF Len(request_data) < 2 THEN "IndexError"
    ELSE IF request_data[2] # 1 THEN "no"
    ELSE IF Len(request_data) < 3 THEN "IndexError"
    ELSE IF request_data[3] # b2 THEN "no"
    ELSE IF Len(request_data) < 4 THEN "IndexError"
    ELSE IF request_data[4] # b3 THEN "no"
    ELSE "yes"

SecuritySeed == <<18, 52, 86, 120, 154, 188, 222, 240>>

\* a slip: TransferData is answered with a fixed sequence byte
default_tail_fixed_sequence(request_data) ==
    LET service_id == request_data[1]
        dd02 == routine_match(request_data, 221, 2)
        ff00 == routine_match(request_data, 255, 0)
    IN  IF dd02 = "IndexError" THEN Raise("IndexError")
        ELSE IF dd02 = "yes" THEN Bytes(<<113, 1, 221, 2, 0>>)
        ELSE IF service_id = 52 /\ Len(request_data) > 1
             THEN Bytes(<<116, 64, 0, 0, 63, 2>>)
        ELSE IF service_id = 54 /\ Len(request_data) > 1
             THEN Bytes(<<118, 1>>)
        ELSE IF service_id = 55 THEN Bytes(<<119>>)
        ELSE IF ff00 = "IndexError" THEN Raise("IndexError")
        ELSE IF ff00 = "yes" THEN Bytes(<<113, 1, 255, 0, 0>>)
        ELSE Bytes(<<127, service_id, 17>>)

\* lines 426-449 of generate_default_diagnostic_response: the rules after the
\* if/elif chain on service_id
default_tail(request_data) ==
    LET service_id == request_data[1]
        dd02 == routine_match(request_data, 221, 2)
        ff00 == routine_match(request_data, 255, 0)
    IN  IF dd02 = "IndexError" THEN Raise("IndexError")
        ELSE IF dd02 = "yes" THEN Bytes(<<113, 1, 221, 2, 0>>)
        ELSE IF service_id = 52 /\ Len(request_data) > 1
             THEN Bytes(<<116, 64, 0, 0, 63, 2>>)
        ELSE IF service_id = 54 /\ Len(request_data) > 1
             THEN Bytes(<<118, request_data[2]>>)
        ELSE IF service_id = 55 THEN Bytes(<<119>>)
        ELSE IF ff00 = "IndexError" THEN Raise("IndexError")
        ELSE IF ff00 = "yes" THEN Bytes(<<113, 1, 255, 0, 0>>)
        ELSE Bytes(<<127, service_id, 17>>)

\* a slip: only the functional TesterPresent is suppressed
suppressed_functional_only(service_id, address_type) ==
    address_type = "functional" /\ service_id = 62

\* lines 390-400: the requests suppressed before the if/elif chain on
\* service_id
suppressed(service_id, address_type) ==
    \/ address_type = "functional" /\ service_id = 62
    \/ address_type = "physical" /\ service_id = 62

\* a slip: TesterPresent is answered when the address type is unknown
tester_present_answers_unknown(address_type) ==
    IF address_type \in {"physical", "unknown"} THEN Bytes(<<126>>) ELSE None

\* lines 415-419: the TesterPresent branch of the if/elif chain
tester_present(address_type) ==
    IF address_type = "physical" THEN Bytes(<<126>>) ELSE None

\* DoIPServer.generate_default_diagnostic_response
generate_default_diagnostic_response(request_data, address_type) ==
    LET service_id == request_data[1]
    IN  IF suppressed(service_id, address_type) THEN None
        ELSE IF service_id = 16
             THEN Bytes(<<80>> \o Slice(request_data, 1, 2) \o <<0, 50, 1, 244>>)
        ELSE IF service_id = 34
             THEN IF Len(request_data) >= 3
                  THEN Bytes(<<98>> \o Slice(request_data, 1, 3) \o <<1, 2, 3, 4>>)
                  ELSE default_tail(request_data)
        ELSE IF service_id = 39
             THEN IF Len(request_data) >= 2
                  THEN IF request_data[2] % 2 = 1
                       THEN Bytes(<<103, request_data[2]>> \o SecuritySeed \o SecuritySeed)
                       ELSE Bytes(<<103, request_data[2]>>)
                  ELSE default_tail(request_data)
        ELSE IF service_id = 62 THEN tester_present(address_type)
        ELSE IF service_id = 17
             THEN IF Len(request_data) >= 2
                  THEN Bytes(<<81, request_data[2]>>)
                  ELSE default_tail(request_data)
        ELSE default_tail(request_data)

\* DoIPServer.generate_diagnostic_response with the catalog config
generate_diagnostic_response(config, request_data, address_type) ==
    IF Len(request_data) = 0 THEN None
    ELSE LET request_hex == Upper(BytesHex(request_data))
         IN  IF request_hex \in DOMAIN config
             THEN LET r == fromhex(config[request_hex])
                  IN  IF r.ok THEN Bytes(r.data) ELSE None
             ELSE generate_default_diagnostic_response(request_data, address_type)

\* ---------------------------------------------------------- protocol engine

\* a slip: the declared length counts the header
encode_counts_header(payload_type, payload_data) ==
    pack_BBHI(DOIP_VERSION, DOIP_INVERSE_VERSION, payload_type,
              Len(payload_data) + DOIP_HEADER_SIZE) \o payload_data

\* header + payload_data, the bytes send_doip_message hands to socket.send
encode(payload_type, payload_data) ==
    pack_BBHI(DOIP_VERSION, DOIP_INVERSE_VERSION, payload_type, Len(payload_data))
        \o payload_data

VIN == <<49, 72, 71, 66, 72, 52, 49, 74, 88, 77, 78, 49, 48, 57, 49, 56, 54>>
EID == <<1, 2, 3, 4, 5, 6>>
GID == <<7, 8, 9, 10, 11, 12>>

vehicle_identification_payload == VIN \o pack_H(server_addr) \o EID \o GID \o <<0>>

\* What handling one frame does, in the order the code does it: the frames it
\* writes, then whether it marks the session (the registry loop of
\* handle_routing_activation_request), then the exception it raises, if any.
Plan(writes, activate, exc) == [writes |-> writes, activate |-> activate, exc |-> exc]

\* DoIPServer.handle_vehicle_identification_request: the first statement calls
\* lself.log_message, and lself is not a name
handle_vehicle_identification_request(payload_data) ==
    Plan(<<>>, FALSE, "NameError")

\* a slip: a short request is answered with a denial
handle_routing_activation_request_denies(payload_data) ==
    IF Len(payload_data) >= 4
    THEN LET source_address == unpack_H(Slice(payload_data, 0, 2))
             response_payload == pack_H(source_address) \o pack_H(server_addr)
                                     \o <<16>> \o <<0, 0, 0, 0>>
         IN  Plan(<<encode(DOIP_ROUTING_ACTIVATION_RESPONSE, response_payload)>>,
                  TRUE, "none")
    ELSE Plan(<<encode(DOIP_ROUTING_ACTIVATION_RESPONSE,
                       <<0, 0>> \o pack_H(server_addr) \o <<0>> \o <<0, 0, 0, 0>>)>>,
              FALSE, "none")

\* DoIPServer.handle_routing_activation_request up to the registry loop
handle_routing_activation_request(payload_data) ==
    IF Len(payload_data) >= 4
    THEN LET source_address == unpack_H(Slice(payload_data, 0, 2))
             response_payload == pack_H(source_address) \o pack_H(server_addr)
                                     \o <<16>> \o <<0, 0, 0, 0>>
         IN  Plan(<<encode(DOIP_ROUTING_ACTIVATION_RESPONSE, response_payload)>>,
                  TRUE, "none")
    ELSE Plan(<<>>, FALSE, "none")

\* the address classification of handle_diagnostic_message
address_type_of(target_address) ==
    IF target_address = server_addr THEN "physical"
    ELSE IF target_address = server_addr_func THEN "functional"
    ELSE "unknown"

\* a slip: the ACK names the server's own address as target
diagnostic_ack_own_address(source_address, target_address) ==
    encode(DOIP_DIAGNOSTIC_MESSAGE_ACK,
           pack_H(source_address) \o pack_H(server_addr) \o <<0>>)

\* lines 354-355: the ACK frame of a Diagnostic Message
diagnostic_ack(source_address, target_address) ==
    encode(DOIP_DIAGNOSTIC_MESSAGE_ACK,
           pack_H(source_address) \o pack_H(target_address) \o <<0>>)

\* a slip: source and target address of the response are exchanged
diagnostic_response_swapped(source_address, response_data) ==
    encode(DOIP_DIAGNOSTIC_MESSAGE,
           pack_H(source_address) \o pack_H(server_addr) \o response_data)

\* lines 359-361: the response frame of a Diagnostic Message
diagnostic_response(source_address, response_data) ==
    encode(DOIP_DIAGNOSTIC_MESSAGE,
           pack_H(server_addr) \o pack_H(source_address) \o response_data)

\* a slip: the response is written first
diagnostic_writes_response_first(ack, response) == <<response, ack>>

\* lines 355 and 362: the ACK is sent, then the response
diagnostic_writes(ack, response) == <<ack, response>>

\* a slip: the responder is called whatever the user data
responder_requests_unguarded(payload_data) ==
    IF Len(payload_data) >= 4 THEN <<SliceFrom(payload_data, 4)>> ELSE <<>>

\* lines 336-358: the requests handle_diagnostic_message calls
\* generate_diagnostic_response with, one when there is user data, else none
responder_requests(payload_data) ==
    IF Len(payload_data) >= 4 /\ Len(SliceFrom(payload_data, 4)) # 0
    THEN <<SliceFrom(payload_data, 4)>>
    ELSE <<>>

\* DoIPServer.handle_diagnostic_message
handle_diagnostic_message(config, payload_data) ==
    IF Len(payload_data) >= 4
    THEN LET source_address == unpack_H(Slice(payload_data, 0, 2))
             target_address == unpack_H(Slice(payload_data, 2, 4))
             user_data == SliceFrom(payload_data, 4)
             ack == diagnostic_ack(source_address, target_address)
             response_data == generate_diagnostic_response(
                                  config, user_data, address_type_of(target_address))
         IN  IF responder_requests(payload_data) = <<>>
             THEN Plan(<<ack>>, FALSE, "none")
             ELSE IF response_data.kind = "None" THEN Plan(<<ack>>, FALSE, "none")
             ELSE IF response_data.kind # "bytes"
                  THEN Plan(<<ack>>, FALSE, response_data.kind)
             ELSE IF Len(response_data.data) = 0 THEN Plan(<<ack>>, FALSE, "none")
             ELSE Plan(diagnostic_writes(
                           ack, diagnostic_response(source_address, response_data.data)),
                       FALSE, "none")
    ELSE Plan(<<>>, FALSE, "none")

\* a slip: a payload type without a handler is answered with a generic NACK
process_tcp_doip_message_nacks(config, payload_type, payload_data) ==
    IF payload_type = DOIP_VEHICLE_IDENTIFICATION_REQUEST
    THEN handle_vehicle_identification_request(payload_data)
    ELSE IF payload_type = DOIP_ROUTING_ACTIVATION_REQUEST
    THEN handle_routing_activation_request(payload_data)
    ELSE IF payload_type = DOIP_DIAGNOSTIC_MESSAGE
    THEN handle_diagnostic_message(config, payload_data)
    ELSE Plan(<<encode(0, <<1>>)>>, FALSE, "none")

\* DoIPServer.process_tcp_doip_message
process_tcp_doip_message(config, payload_type, payload_data) ==
    IF payload_type = DOIP_VEHICLE_IDENTIFICATION_REQUEST
    THEN handle_vehicle_identification_request(payload_data)
    ELSE IF payload_type = DOIP_ROUTING_ACTIVATION_REQUEST
    THEN handle_routing_activation_request(payload_data)
    ELSE IF payload_type = DOIP_DIAGNOSTIC_MESSAGE
    THEN handle_diagnostic_message(config, payload_data)
    ELSE Plan(<<>>, FALSE, "none")

\* Lines 250-264 of handle_tcp_client on the bytes the peer has put on the
\* stream before it goes quiet or closes: receive_exact of the header, the
\* unpack, receive_exact of the payload. dispatched is FALSE when receive_exact
\* returned None (the stream ended inside the frame) and the loop breaks.
receive_frame(data) ==
    IF Len(data) < DOIP_HEADER_SIZE
    THEN [dispatched |-> FALSE, payload_type |-> 0, payload_data |-> <<>>]
    ELSE LET h == unpack_BBHI(Slice(data, 0, DOIP_HEADER_SIZE))
             rest == SliceFrom(data, DOIP_HEADER_SIZE)
         IN  IF h.payload_length > 0 /\ Len(rest) < h.payload_length
             THEN [dispatched |-> FALSE, payload_type |-> h.payload_type,
                   payload_data |-> <<>>]
             ELSE [dispatched |-> TRUE, payload_type |-> h.payload_type,
                   payload_data |-> Slice(rest, 0, h.payload_length)]

\* a slip: the handler of the UDP request has no NameError and sends the response
handle_udp_vehicle_identification_request_sends(payload_data) ==
    Plan(<<encode(DOIP_VEHICLE_IDENTIFICATION_RESPONSE, vehicle_identification_payload)>>,
         FALSE, "none")

\* DoIPServer.handle_udp_vehicle_identification_request: line 178 names
\* log_message without self, which raises NameError before the response is
\* built and sent at line 188
handle_udp_vehicle_identification_request(payload_data) ==
    Plan(<<>>, FALSE, "NameError")

\* DoIPServer.process_udp_doip_message: the else branch at line 175 names
\* log_message without self as well
process_udp_doip_message(payload_type, payload_data) ==
    IF payload_type = DOIP_VEHICLE_IDENTIFICATION_REQUEST
    THEN handle_udp_vehicle_identification_request(payload_data)
    ELSE Plan(<<>>, FALSE, "NameError")

\* Lines 139-152 of handle_udp_messages on one datagram: the header is
\* unpacked when there are 8 bytes, the payload is cut to the declared length
\* (a slice, never a failure) and the message is dispatched
receive_datagram(data) ==
    IF Len(data) >= DOIP_HEADER_SIZE
    THEN LET hd == unpack_BBHI(Slice(data, 0, DOIP_HEADER_SIZE))
         IN  process_udp_doip_message(
                 hd.payload_type,
                 Slice(data, DOIP_HEADER_SIZE, DOIP_HEADER_SIZE + hd.payload_length))
    ELSE Plan(<<>>, FALSE, "none")

\* ------------------------------------------------------------------ state

VARIABLES
    running,          \* self.running
    tcp_socket,       \* self.tcp_socket: 0 is None, g >= 1 the socket start number g made
    udp_socket,       \* self.udp_socket, likewise
    clients,          \* self.clients: the dict's entries in insertion order;
                      \* a deleted entry leaves a dummy (id 0) until clear()
    response_config,  \* self.response_config
    listening,        \* the TCP sockets of start_server that are open (bound
                      \* and listening, unless their bind failed)
    udp_open,         \* the UDP sockets that are open
    sock_closed,      \* the accepted connections whose socket object is closed
    h,                \* h[c]: the handler thread of connection c
    acc,              \* acc[g]: the accept-loop thread start number g spawned
    udp,              \* udp[g]: the UDP thread start number g spawned
    emb,              \* the embedder's thread, inside start_server / stop_server
    ncalls,           \* start_server / stop_server calls made so far
    nconn,            \* connections accepted so far
    ndgram,           \* datagrams received so far
    udss,             \* the UDSServer object (uds_server.py), if one is made
    tm                \* the TransportManager object (transport.py), if one is made

vars == <<running, tcp_socket, udp_socket, clients, response_config, listening,
          udp_open, sock_closed, h, acc, udp, emb, ncalls, nconn, ndgram, udss, tm>>

\* the variables of the DoIPServer object
server_vars == <<running, tcp_socket, udp_socket, clients, response_config, listening,
                 udp_open, sock_closed, h, acc, udp, emb, ncalls, nconn, ndgram>>

Conns == 1..MaxConns
Gens == 1..MaxCalls

Dummy == [id |-> 0, routing_activated |-> FALSE]

\* len(self.clients)
Live(entries) == {i \in 1..Len(entries) : entries[i].id # 0}

\* the positions of client_id in self.clients (at most one)
EntryOf(entries, c) == {i \in 1..Len(entries) : entries[i].id = c}

\* a dict iterator: the size it was made for and the next entry to look at
Iterator(entries) == [size |-> Cardinality(Live(entries)), pos |-> 1]
NoIterator == [size |-> 0, pos |-> 0]

\* next() of a dict iterator: RuntimeError when the dict changed size, else the
\* position of the next live entry, or 0 when there is none (StopIteration)
iter_next(entries, it) ==
    IF Cardinality(Live(entries)) # it.size THEN [kind |-> "RuntimeError", at |-> 0]
    ELSE LET left == {i \in Live(entries) : i >= it.pos}
         IN  IF left = {} THEN [kind |-> "StopIteration", at |-> 0]
             ELSE [kind |-> "entry", at |-> CHOOSE i \in left : \A j \in left : i <= j]

\* events: the client_connected and client_disconnected events emitted for the
\* connection's endpoint
IdleHandler == [pc |-> "idle", req |-> <<>>, sent |-> <<>>, nrecv |-> 0,
                exc |-> "none", it |-> NoIterator, events |-> <<>>]
IdleThread == [pc |-> "none", sock |-> 0]
\* wrote is history: the UDP sockets the thread has sent a datagram on
IdleUdp == [pc |-> "none", sock |-> 0, dgram |-> <<>>, sent |-> <<>>, exc |-> "none",
            wrote |-> {}]
\* call is the call the embedder is in or was in last, status the last status
\* that status_changed emitted; last and before name the embedder's last two
\* calls; old is history too: the connections 1..old were accepted before the
\* last run of stop_server ended
IdleEmbedder == [pc |-> "idle", it |-> NoIterator, raised |-> FALSE, last |-> "none",
                 before |-> "none", old |-> 0, call |-> "none", status |-> "none"]

\* the state after DoIPServer.__init__ with one of the documents docs
DoIPServerInit(docs) ==
    /\ running = FALSE
    /\ tcp_socket = 0
    /\ udp_socket = 0
    /\ clients = <<>>
    /\ \E doc \in docs : response_config = load_response_config(doc)
    /\ listening = {}
    /\ udp_open = {}
    /\ sock_closed = {}
    /\ h = [c \in Conns |-> IdleHandler]
    /\ acc = [g \in Gens |-> IdleThread]
    /\ udp = [g \in Gens |-> IdleUdp]
    /\ emb = IdleEmbedder
    /\ ncalls = 0
    /\ nconn = 0
    /\ ndgram = 0

\* no UDSServer and no TransportManager has been made
NoUDSServer ==
    [made |-> FALSE, running |-> FALSE, current_session |-> 0,
     security_access_level |-> 0, config |-> <<>>, request |-> <<>>,
     response |-> <<>>, event |-> "none", nmsg |-> 0]

NoTransportManager ==
    [made |-> FALSE, transport_info |-> <<>>, current_transport |-> "None",
     responsefile |-> "None", pc |-> "idle", valid |-> FALSE, log |-> "none",
     ninit |-> 0]

\* a DoIPServer after its constructor, on its own
InitWith(docs) ==
    /\ DoIPServerInit(docs)
    /\ udss = NoUDSServer
    /\ tm = NoTransportManager

\* -------------------------------------------------------------- lifecycle

\* One turn of the for loop of stop_server over self.clients.values(): next()
\* on the iterator, then the close of that client's socket. The loop is not
\* inside a try: a RuntimeError of next() leaves stop_server (and start_server,
\* when stop_server runs in its except clause).
stop_turn(entries, it, e, closed) ==
    LET r == iter_next(entries, it)
    IN  CASE r.kind = "RuntimeError" ->
               [emb |-> [e EXCEPT !.pc = "idle", !.it = NoIterator, !.raised = TRUE,
                                  !.last = IF e.call = "start" THEN "start_raised"
                                           ELSE "stop_raised",
                                  !.old = nconn],
                closed |-> closed]
          [] r.kind = "StopIteration" ->
               [emb |-> [e EXCEPT !.pc = "stop_clear", !.it = NoIterator],
                closed |-> closed]
          [] r.kind = "entry" ->
               [emb |-> [e EXCEPT !.pc = "stop_iter", !.it = [it EXCEPT !.pos = r.at + 1]],
                closed |-> closed \cup {entries[r.at].id}]

\* the start number of the sockets the next start_server creates
NextGen == tcp_socket + 1

\* what the binds of start_server do: both succeed, the bind of the TCP
\* socket raises, or the bind of the UDP socket raises
BindOutcomes == {"ok", "tcp", "udp"}

\* a slip: start_server does not look at the running flag
already_running_unchecked(flag) == FALSE

\* lines 68-70 of start_server: the early return on a running server
already_running(flag) == flag

\* The embedder calls start_server() (it makes at most maxcalls calls). With
\* running set it returns at once.
\* Otherwise it creates and binds both sockets, sets running, emits the status
\* running and spawns the UDP thread and the accept thread. When a bind raises,
\* the except clause emits the status error and calls stop_server with the
\* sockets made so far in self.tcp_socket and self.udp_socket: running = False,
\* the iterator over the registry and the first turn of its loop.
start_server(maxcalls) ==
    /\ emb.pc = "idle"
    /\ ncalls < maxcalls
    /\ ncalls' = ncalls + 1
    /\ IF already_running(running)
       THEN /\ emb' = [emb EXCEPT !.last = "start_noop", !.before = emb.last,
                                  !.call = "start"]
            /\ UNCHANGED <<running, tcp_socket, udp_socket, listening, udp_open,
                           sock_closed, acc, udp>>
       ELSE LET g == NextGen
            IN  \E bind \in BindOutcomes :
                  IF bind = "ok"
                  THEN /\ tcp_socket' = g
                       /\ udp_socket' = g
                       /\ listening' = listening \cup {g}
                       /\ udp_open' = udp_open \cup {g}
                       /\ running' = TRUE
                       /\ acc' = [acc EXCEPT ![g] = [pc |-> "check", sock |-> 0]]
                       /\ udp' = [udp EXCEPT ![g] = [IdleUdp EXCEPT !.pc = "check"]]
                       /\ emb' = [emb EXCEPT !.last = "start", !.before = emb.last,
                                             !.call = "start", !.status = "running"]
                       /\ UNCHANGED sock_closed
                  ELSE LET t == stop_turn(clients, Iterator(clients),
                                          [emb EXCEPT !.before = emb.last,
                                                      !.last = "starting",
                                                      !.call = "start",
                                                      !.status = "error"],
                                          sock_closed)
                       IN  /\ tcp_socket' = g
                           /\ listening' = listening \cup {g}
                           /\ udp_socket' = IF bind = "udp" THEN g ELSE udp_socket
                           /\ udp_open' = IF bind = "udp" THEN udp_open \cup {g}
                                          ELSE udp_open
                           /\ running' = FALSE
                           /\ emb' = t.emb
                           /\ sock_closed' = t.closed
                           /\ UNCHANGED <<acc, udp>>
    /\ UNCHANGED <<clients, response_config, h, nconn, ndgram>>
    /\ UNCHANGED <<udss, tm>>

\* The embedder calls stop_server(): running = False, the iterator over
\* self.clients.values() is made and the first turn of the loop runs.
stop_server_begin(maxcalls) ==
    /\ emb.pc = "idle"
    /\ ncalls < maxcalls
    /\ ncalls' = ncalls + 1
    /\ running' = FALSE
    /\ LET t == stop_turn(clients, Iterator(clients),
                          [emb EXCEPT !.before = emb.last, !.last = "stopping",
                                      !.call = "stop"],
                          sock_closed)
       IN  /\ emb' = t.emb
           /\ sock_closed' = t.closed
    /\ UNCHANGED <<tcp_socket, udp_socket, clients, response_config, listening,
                   udp_open, h, acc, udp, nconn, ndgram>>
    /\ UNCHANGED <<udss, tm>>

\* a later turn of the for loop of stop_server
stop_server_iterate ==
    /\ emb.pc = "stop_iter"
    /\ LET t == stop_turn(clients, emb.it, emb, sock_closed)
       IN  /\ emb' = t.emb
           /\ sock_closed' = t.closed
    /\ UNCHANGED <<running, tcp_socket, udp_socket, clients, response_config,
                   listening, udp_open, h, acc, udp, ncalls, nconn, ndgram>>
    /\ UNCHANGED <<udss, tm>>

\* The rest of stop_server: self.clients.clear(), then the close of the TCP
\* and of the UDP socket when they are not None.
stop_server_clear ==
    /\ emb.pc = "stop_clear"
    /\ clients' = <<>>
    /\ listening' = listening \ {tcp_socket}
    /\ udp_open' = udp_open \ {udp_socket}
    /\ emb' = [emb EXCEPT !.pc = "idle", !.old = nconn,
                          !.last = IF emb.call = "start" THEN "start_failed" ELSE "stop"]
    /\ UNCHANGED <<running, tcp_socket, udp_socket, response_config, sock_closed,
                   h, acc, udp, ncalls, nconn, ndgram>>
    /\ UNCHANGED <<udss, tm>>

\* ------------------------------------------------------------- accept loop

\* while self.running: the thread goes on to self.tcp_socket.accept(), or leaves
tcp_accept_loop_check(g) ==
    /\ acc[g].pc = "check"
    /\ acc' = [acc EXCEPT ![g] = IF running THEN [pc |-> "accept", sock |-> tcp_socket]
                                            ELSE [pc |-> "stopped", sock |-> 0]]
    /\ UNCHANGED <<running, tcp_socket, udp_socket, clients, response_config,
                   listening, udp_open, sock_closed, h, emb, udp, ncalls, nconn, ndgram>>
    /\ UNCHANGED <<udss, tm>>

\* accept() returns a connection: client_connected is emitted and the handler
\* thread of the new connection is started. A thread that was blocked in accept() when the listener was closed
\* may still be handed a connection (the close does not wake it).
tcp_accept_loop_accept(g, maxconns) ==
    /\ acc[g].pc = "accept"
    /\ nconn < maxconns
    /\ nconn' = nconn + 1
    /\ h' = [h EXCEPT ![nconn + 1] = [@ EXCEPT !.pc = "spawned",
                                               !.events = <<"client_connected">>]]
    /\ acc' = [acc EXCEPT ![g].pc = "check"]
    /\ UNCHANGED <<running, tcp_socket, udp_socket, clients, response_config,
                   listening, udp_open, sock_closed, emb, udp, ncalls, ndgram>>
    /\ UNCHANGED <<udss, tm>>

\* accept() raises socket.error on a closed listener: the loop breaks
tcp_accept_loop_error(g) ==
    /\ acc[g].pc = "accept"
    /\ acc[g].sock \notin listening
    /\ acc' = [acc EXCEPT ![g] = [pc |-> "stopped", sock |-> 0]]
    /\ UNCHANGED <<running, tcp_socket, udp_socket, clients, response_config,
                   listening, udp_open, sock_closed, h, emb, udp, ncalls, nconn, ndgram>>
    /\ UNCHANGED <<udss, tm>>

\* ---------------------------------------------------------- client handler

\* a slip: a Diagnostic Message on a session that is not activated gets the
\* ACK alone
PlanOf_gated(c) ==
    LET f == receive_frame(h[c].req)
        p == process_tcp_doip_message(response_config, f.payload_type, f.payload_data)
        activated == \E i \in EntryOf(clients, c) : clients[i].routing_activated
    IN  IF f.payload_type = DOIP_DIAGNOSTIC_MESSAGE /\ ~activated /\ Len(p.writes) > 1
        THEN [p EXCEPT !.writes = <<p.writes[1]>>]
        ELSE p

\* the frame the handler of c is working on, as process_tcp_doip_message sees it
PlanOf(c) ==
    LET f == receive_frame(h[c].req)
    IN  process_tcp_doip_message(response_config, f.payload_type, f.payload_data)

\* a slip: the loop marks the first session it finds
mark_turn_first(c, entries, it) ==
    LET r == iter_next(entries, it)
    IN  CASE r.kind = "RuntimeError" ->
               [pc |-> "finally", exc |-> "RuntimeError", it |-> NoIterator,
                clients |-> entries]
          [] r.kind = "StopIteration" ->
               [pc |-> "loop", exc |-> "none", it |-> NoIterator, clients |-> entries]
          [] r.kind = "entry" ->
               [pc |-> "loop", exc |-> "none", it |-> NoIterator,
                clients |-> [entries EXCEPT ![r.at].routing_activated = TRUE]]

\* One turn of the for loop of handle_routing_activation_request over
\* self.clients.values(): next(), then the comparison with the own socket.
\* The loop runs inside the try of handle_tcp_client.
mark_turn(c, entries, it) ==
    LET r == iter_next(entries, it)
    IN  CASE r.kind = "RuntimeError" ->
               [pc |-> "finally", exc |-> "RuntimeError", it |-> NoIterator,
                clients |-> entries]
          [] r.kind = "StopIteration" ->
               [pc |-> "loop", exc |-> "none", it |-> NoIterator, clients |-> entries]
          [] r.kind = "entry" /\ entries[r.at].id = c ->
               [pc |-> "loop", exc |-> "none", it |-> NoIterator,
                clients |-> [entries EXCEPT ![r.at].routing_activated = TRUE]]
          [] r.kind = "entry" /\ entries[r.at].id # c ->
               [pc |-> "activate", exc |-> "none", it |-> [it EXCEPT !.pos = r.at + 1],
                clients |-> entries]

\* where the handler of c goes once every frame of the plan p is written: to
\* the except clause, into the registry loop (its first turn runs at once), or
\* back to the head of the while loop
AfterWrites(c, p, entries) ==
    IF p.exc # "none"
    THEN [pc |-> "finally", exc |-> p.exc, it |-> NoIterator, clients |-> entries]
    ELSE IF p.activate THEN mark_turn(c, entries, Iterator(entries))
    ELSE [pc |-> "loop", exc |-> "none", it |-> NoIterator, clients |-> entries]

\* lines 241-246 of handle_tcp_client: the thread registers its session
handle_tcp_client_register(c) ==
    /\ h[c].pc = "spawned"
    /\ clients' = Append(clients, [id |-> c, routing_activated |-> FALSE])
    /\ h' = [h EXCEPT ![c].pc = "loop"]
    /\ UNCHANGED <<running, tcp_socket, udp_socket, response_config, listening,
                   udp_open, sock_closed, acc, udp, emb, ncalls, nconn, ndgram>>
    /\ UNCHANGED <<udss, tm>>

\* while self.running: on to the next header, or out to the finally block
handle_tcp_client_loop(c) ==
    /\ h[c].pc = "loop"
    /\ h' = [h EXCEPT ![c] = IF running
                             THEN [@ EXCEPT !.pc = "recv", !.req = <<>>, !.sent = <<>>]
                             ELSE [@ EXCEPT !.pc = "finally"]]
    /\ UNCHANGED <<running, tcp_socket, udp_socket, clients, response_config,
                   listening, udp_open, sock_closed, acc, udp, emb, ncalls, nconn, ndgram>>
    /\ UNCHANGED <<udss, tm>>

\* Lines 250-264: the peer's next bytes arrive (data, one of inputs, or nothing
\* before it closes) and are read and dispatched; a frame that writes nothing is
\* done with here. A thread blocked in recv() when its socket was closed still
\* gets the bytes.
handle_tcp_client_receive(c, inputs) ==
    /\ h[c].pc = "recv"
    /\ \E data \in inputs \cup {<<>>} :
        /\ data # <<>> => h[c].nrecv < MaxFrames
        /\ LET f == receive_frame(data)
               p == process_tcp_doip_message(response_config, f.payload_type,
                                             f.payload_data)
               n == IF data = <<>> THEN h[c].nrecv ELSE h[c].nrecv + 1
               a == AfterWrites(c, p, clients)
           IN  IF ~f.dispatched
               THEN /\ h' = [h EXCEPT ![c] = [@ EXCEPT !.pc = "finally", !.req = data,
                                                       !.nrecv = n]]
                    /\ UNCHANGED clients
               ELSE IF p.writes # <<>>
               THEN /\ h' = [h EXCEPT ![c] = [@ EXCEPT !.pc = "write", !.req = data,
                                                       !.nrecv = n]]
                    /\ UNCHANGED clients
               ELSE /\ h' = [h EXCEPT ![c] = [@ EXCEPT !.pc = a.pc, !.exc = a.exc,
                                                       !.it = a.it, !.req = data,
                                                       !.nrecv = n]]
                    /\ clients' = a.clients
    /\ UNCHANGED <<running, tcp_socket, udp_socket, response_config,
                   listening, udp_open, sock_closed, acc, udp, emb, ncalls, nconn, ndgram>>
    /\ UNCHANGED <<udss, tm>>

\* recv() on a socket object that is closed raises OSError; the except clause
\* of handle_tcp_client catches it
handle_tcp_client_recv_error(c) ==
    /\ h[c].pc = "recv"
    /\ c \in sock_closed
    /\ h' = [h EXCEPT ![c] = [@ EXCEPT !.pc = "finally", !.exc = "OSError"]]
    /\ UNCHANGED <<running, tcp_socket, udp_socket, clients, response_config,
                   listening, udp_open, sock_closed, acc, udp, emb, ncalls, nconn, ndgram>>
    /\ UNCHANGED <<udss, tm>>

\* a slip: the handler is done with the request after its first frame
handle_tcp_client_send_returns_early(c) ==
    /\ h[c].pc = "write"
    /\ LET p == PlanOf(c)
           i == Len(h[c].sent) + 1
           a == AfterWrites(c, p, clients)
       IN  IF c \in sock_closed
           THEN /\ h' = [h EXCEPT ![c] = [@ EXCEPT !.pc = "finally", !.exc = "OSError"]]
                /\ UNCHANGED clients
           ELSE /\ h' = [h EXCEPT ![c] = [@ EXCEPT !.sent = Append(@, p.writes[i]),
                                                   !.pc = a.pc, !.exc = a.exc,
                                                   !.it = a.it]]
                /\ clients' = a.clients
    /\ UNCHANGED <<running, tcp_socket, udp_socket, response_config, listening,
                   udp_open, sock_closed, acc, udp, emb, ncalls, nconn, ndgram>>
    /\ UNCHANGED <<udss, tm>>

\* send_doip_message of the next frame of the plan: client_socket.send raises
\* OSError on a closed socket, else the frame is on the wire; after the last
\* frame the handler moves on
handle_tcp_client_send(c) ==
    /\ h[c].pc = "write"
    /\ LET p == PlanOf(c)
           i == Len(h[c].sent) + 1
           a == AfterWrites(c, p, clients)
       IN  IF c \in sock_closed
           THEN /\ h' = [h EXCEPT ![c] = [@ EXCEPT !.pc = "finally", !.exc = "OSError"]]
                /\ UNCHANGED clients
           ELSE IF i < Len(p.writes)
           THEN /\ h' = [h EXCEPT ![c].sent = Append(@, p.writes[i])]
                /\ UNCHANGED clients
           ELSE /\ h' = [h EXCEPT ![c] = [@ EXCEPT !.sent = Append(@, p.writes[i]),
                                                   !.pc = a.pc, !.exc = a.exc,
                                                   !.it = a.it]]
                /\ clients' = a.clients
    /\ UNCHANGED <<running, tcp_socket, udp_socket, response_config, listening,
                   udp_open, sock_closed, acc, udp, emb, ncalls, nconn, ndgram>>
    /\ UNCHANGED <<udss, tm>>

\* a later turn of the registry loop of handle_routing_activation_request
handle_routing_activation_mark(c) ==
    /\ h[c].pc = "activate"
    /\ LET a == mark_turn(c, clients, h[c].it)
       IN  /\ h' = [h EXCEPT ![c] = [@ EXCEPT !.pc = a.pc, !.exc = a.exc, !.it = a.it]]
           /\ clients' = a.clients
    /\ UNCHANGED <<running, tcp_socket, udp_socket, response_config, listening,
                   udp_open, sock_closed, acc, udp, emb, ncalls, nconn, ndgram>>
    /\ UNCHANGED <<udss, tm>>

\* the finally block: the socket is closed and the session leaves the
\* registry (a log record is the only thing emitted); the thread ends and its
\* locals are gone
handle_tcp_client_finally(c) ==
    /\ h[c].pc = "finally"
    /\ sock_closed' = sock_closed \cup {c}
    /\ clients' = [i \in 1..Len(clients) |->
                      IF clients[i].id = c THEN Dummy ELSE clients[i]]
    /\ h' = [h EXCEPT ![c] = [IdleHandler EXCEPT !.pc = "done",
                                                 !.events = h[c].events]]
    /\ UNCHANGED <<running, tcp_socket, udp_socket, response_config, listening,
                   udp_open, acc, udp, emb, ncalls, nconn, ndgram>>
    /\ UNCHANGED <<udss, tm>>

\* -------------------------------------------------------------- UDP thread

\* while self.running: the thread goes on to self.udp_socket.recvfrom(), or
\* leaves
handle_udp_messages_check(g) ==
    /\ udp[g].pc = "check"
    /\ udp' = [udp EXCEPT ![g] = IF running
                                 THEN [@ EXCEPT !.pc = "recv", !.sock = udp_socket]
                                 ELSE [@ EXCEPT !.pc = "stopped", !.sock = 0]]
    /\ UNCHANGED <<running, tcp_socket, udp_socket, clients, response_config,
                   listening, udp_open, sock_closed, h, acc, emb, ncalls, nconn, ndgram>>
    /\ UNCHANGED <<udss, tm>>

\* recvfrom() returns a datagram and the loop body handles it: the replies are
\* sent with self.udp_socket.sendto(), which raises socket.error on a closed
\* socket and breaks the loop; any other exception is caught at line 162 and
\* the loop goes on. A thread that was blocked in recvfrom() when the socket
\* was closed may still be handed a datagram.
handle_udp_messages_receive(g, datagrams) ==
    /\ udp[g].pc = "recv"
    /\ ndgram < MaxDatagrams
    /\ ndgram' = ndgram + 1
    /\ \E data \in datagrams :
          LET p == receive_datagram(data)
          IN  udp' = [udp EXCEPT ![g] =
                        IF p.writes # <<>> /\ udp_socket \notin udp_open
                        THEN [pc |-> "stopped", sock |-> 0, dgram |-> data,
                              sent |-> <<>>, exc |-> "OSError",
                              wrote |-> udp[g].wrote]
                        ELSE [pc |-> "check", sock |-> 0, dgram |-> data,
                              sent |-> p.writes, exc |-> p.exc,
                              wrote |-> IF p.writes # <<>>
                                        THEN udp[g].wrote \cup {udp_socket}
                                        ELSE udp[g].wrote]]
    /\ UNCHANGED <<running, tcp_socket, udp_socket, clients, response_config,
                   listening, udp_open, sock_closed, h, acc, emb, ncalls, nconn>>
    /\ UNCHANGED <<udss, tm>>

\* recvfrom() raises socket.error on a closed socket: the loop breaks
handle_udp_messages_error(g) ==
    /\ udp[g].pc = "recv"
    /\ udp[g].sock \notin udp_open
    /\ udp' = [udp EXCEPT ![g] = [@ EXCEPT !.pc = "stopped", !.sock = 0]]
    /\ UNCHANGED <<running, tcp_socket, udp_socket, clients, response_config,
                   listening, udp_open, sock_closed, h, acc, emb, ncalls, nconn, ndgram>>
    /\ UNCHANGED <<udss, tm>>

\* ------------------------------------------------------------ inputs

\* a frame as a peer builds it
Frame(version, inv_version, payload_type, payload) ==
    pack_BBHI(version, inv_version, payload_type, Len(payload)) \o payload

DiagFrame(source, target, user_data) ==
    Frame(3, 252, DOIP_DIAGNOSTIC_MESSAGE, pack_H(source) \o pack_H(target) \o user_data)

RoutingFrame == Frame(3, 252, DOIP_ROUTING_ACTIVATION_REQUEST,
                      pack_H(client_addr) \o <<0>> \o <<0, 0, 0, 0>>)

\* the frames the peers of the whole-server specification send
Inputs == {RoutingFrame, DiagFrame(client_addr, server_addr, <<16, 3>>)}

\* ----------------------------------------------------------- specification

Init == InitWith({DocMissing})

Next ==
    \/ start_server(MaxCalls)
    \/ stop_server_begin(MaxCalls)
    \/ stop_server_iterate
    \/ stop_server_clear
    \/ \E g \in Gens : tcp_accept_loop_check(g)
    \/ \E g \in Gens : tcp_accept_loop_accept(g, MaxConns)
    \/ \E g \in Gens : tcp_accept_loop_error(g)
    \/ \E c \in Conns : handle_tcp_client_register(c)
    \/ \E c \in Conns : handle_tcp_client_loop(c)
    \/ \E c \in Conns : handle_tcp_client_receive(c, Inputs)
    \/ \E c \in Conns : handle_tcp_client_recv_error(c)
    \/ \E c \in Conns : handle_tcp_client_send(c)
    \/ \E c \in Conns : handle_routing_activation_mark(c)
    \/ \E c \in Conns : handle_tcp_client_finally(c)

Spec == Init /\ [][Next]_vars

\* ---------------------------------------------------------- one session

\* the UDS requests of the single-session specification
UdsRequests == {<<>>, <<16, 3>>, <<16>>, <<62, 128>>, <<62, 0>>, <<34, 241, 144>>,
                <<34, 241>>, <<122, 0>>, <<49, 1>>, <<49, 1, 221, 2>>,
                <<49, 1, 255, 0>>, <<39, 1>>, <<39, 2>>, <<17, 1>>, <<52, 0>>,
                <<54, 1>>, <<55>>}

\* target addresses: physical, functional, neither
Targets == {server_addr, server_addr_func, 4660}

\* source addresses: the expected tester and another one
Sources == {client_addr, 3840}

\* frames with a payload the handlers reject, of a type no handler takes, with
\* a version pair that is not valid, and frames the peer closes in the middle of
OtherFrames ==
    {Frame(3, 252, DOIP_VEHICLE_IDENTIFICATION_REQUEST, <<>>),
     RoutingFrame,
     Frame(3, 252, DOIP_ROUTING_ACTIVATION_REQUEST,
           pack_H(3840) \o <<0>> \o <<0, 0, 0, 0>> \o <<0, 0, 0, 0>>),
     Frame(3, 252, DOIP_ROUTING_ACTIVATION_REQUEST, pack_H(client_addr)),
     Frame(3, 252, DOIP_ROUTING_ACTIVATION_REQUEST, <<>>),
     Frame(3, 252, DOIP_DIAGNOSTIC_MESSAGE, pack_H(client_addr) \o <<16>>),
     Frame(3, 252, DOIP_DIAGNOSTIC_MESSAGE, <<>>),
     Frame(3, 252, DOIP_DIAGNOSTIC_MESSAGE_ACK, pack_H(client_addr) \o pack_H(server_addr) \o <<0>>),
     Frame(3, 252, 0, <<>>),
     Frame(3, 3, DOIP_DIAGNOSTIC_MESSAGE,
           pack_H(client_addr) \o pack_H(server_addr) \o <<16, 3>>),
     Frame(2, 252, DOIP_ROUTING_ACTIVATION_REQUEST,
           pack_H(client_addr) \o <<0>> \o <<0, 0, 0, 0>>),
     SubSeq(RoutingFrame, 1, 5),
     SubSeq(DiagFrame(client_addr, server_addr, <<16, 3>>), 1, 10)}

SessionInputs ==
    {DiagFrame(s, t, u) : s \in Sources, t \in Targets, u \in UdsRequests}
        \cup OtherFrames

SessionInit == InitWith(ConfigDocs)

\* the server with one peer: every document, every frame of SessionInputs
SessionNext ==
    \/ start_server(SessionCalls)
    \/ stop_server_begin(SessionCalls)
    \/ stop_server_iterate
    \/ stop_server_clear
    \/ \E g \in Gens : tcp_accept_loop_check(g)
    \/ \E g \in Gens : tcp_accept_loop_accept(g, 1)
    \/ \E g \in Gens : tcp_accept_loop_error(g)
    \/ handle_tcp_client_register(1)
    \/ handle_tcp_client_loop(1)
    \/ handle_tcp_client_receive(1, SessionInputs)
    \/ handle_tcp_client_recv_error(1)
    \/ handle_tcp_client_send(1)
    \/ handle_tcp_client_finally(1)

SessionSpec == SessionInit /\ [][SessionNext]_vars

\* ------------------------------------------------------------ UDP discovery

\* The datagrams a peer sends to the UDP port: the Vehicle Identification
\* Request of the protocol, one with a payload, one with a wrong inverse
\* version, other payload types, and one shorter than a header.
UdpDatagrams ==
    { Frame(DOIP_VERSION, DOIP_INVERSE_VERSION, DOIP_VEHICLE_IDENTIFICATION_REQUEST, <<>>),
      Frame(DOIP_VERSION, DOIP_INVERSE_VERSION, DOIP_VEHICLE_IDENTIFICATION_REQUEST, <<1, 2>>),
      Frame(DOIP_VERSION, DOIP_VERSION, DOIP_VEHICLE_IDENTIFICATION_REQUEST, <<>>),
      Frame(DOIP_VERSION, DOIP_INVERSE_VERSION, DOIP_VEHICLE_IDENTIFICATION_RESPONSE, <<>>),
      RoutingFrame,
      <<DOIP_VERSION, DOIP_INVERSE_VERSION, 0>> }

UdpInit == InitWith({DocMissing})

\* The server with its UDP thread and no TCP connection: the registry stays
\* empty, so the for loop of stop_server ends at its first next().
UdpNext ==
    \/ start_server(MaxCalls)
    \/ stop_server_begin(MaxCalls)
    \/ stop_server_clear
    \/ \E g \in Gens : tcp_accept_loop_check(g)
    \/ \E g \in Gens : tcp_accept_loop_error(g)
    \/ \E g \in Gens : handle_udp_messages_check(g)
    \/ \E g \in Gens : handle_udp_messages_receive(g, UdpDatagrams)
    \/ \E g \in Gens : handle_udp_messages_error(g)

UdpSpec == UdpInit /\ [][UdpNext]_vars

\* ------------------------------------------------------- sessions side by side

\* a Routing Activation Request, whose handling searches the registry, a
\* Vehicle Identification Request, whose handling raises, and a Routing
\* Activation Request after whose 5th or 10th byte the peer closes
IsolationInputs ==
    {RoutingFrame, Frame(3, 252, DOIP_VEHICLE_IDENTIFICATION_REQUEST, <<>>),
     SubSeq(RoutingFrame, 1, 5), SubSeq(RoutingFrame, 1, 10)}

IsolationInit == InitWith({DocMissing})

\* The server is started once and never stopped (stop_server runs only in the
\* except clause of a start_server whose bind raised); peers connect, send
\* the frames above and close.
IsolationNext ==
    \/ start_server(1)
    \/ stop_server_clear
    \/ \E g \in Gens : tcp_accept_loop_check(g)
    \/ \E g \in Gens : tcp_accept_loop_accept(g, MaxConns)
    \/ \E c \in Conns : handle_tcp_client_register(c)
    \/ \E c \in Conns : handle_tcp_client_loop(c)
    \/ \E c \in Conns : handle_tcp_client_receive(c, IsolationInputs)
    \/ \E c \in Conns : handle_tcp_client_send(c)
    \/ \E c \in Conns : handle_routing_activation_mark(c)
    \/ \E c \in Conns : handle_tcp_client_finally(c)

IsolationSpec == IsolationInit /\ [][IsolationNext]_vars

\* ------------------------------------------------- payload types without handler

\* TCP frames of payload types the server has no handler for, and a Routing
\* Activation Request
UnhandledFrames ==
    {Frame(3, 252, DOIP_DIAGNOSTIC_MESSAGE_ACK,
           pack_H(client_addr) \o pack_H(server_addr) \o <<0>>),
     Frame(3, 252, DOIP_VEHICLE_IDENTIFICATION_RESPONSE, <<>>),
     Frame(3, 252, DOIP_ROUTING_ACTIVATION_RESPONSE, <<1, 2>>),
     Frame(3, 252, 0, <<>>),
     Frame(3, 252, 65535, <<1>>),
     RoutingFrame}

\* UDP datagrams of payload types the UDP thread has no handler for
UnhandledDatagrams ==
    {Frame(3, 252, DOIP_VEHICLE_IDENTIFICATION_RESPONSE, <<>>),
     Frame(3, 252, 0, <<>>),
     Frame(3, 252, 65535, <<1>>),
     RoutingFrame,
     DiagFrame(client_addr, server_addr, <<16, 3>>)}

UnhandledInit == InitWith({DocMissing})

\* The server is started once and never stopped; one peer connects and sends
\* the frames above, and the datagrams above arrive at the UDP socket.
UnhandledNext ==
    \/ start_server(1)
    \/ stop_server_clear
    \/ \E g \in Gens : tcp_accept_loop_check(g)
    \/ \E g \in Gens : tcp_accept_loop_accept(g, 1)
    \/ \E c \in Conns : handle_tcp_client_register(c)
    \/ \E c \in Conns : handle_tcp_client_loop(c)
    \/ \E c \in Conns : handle_tcp_client_receive(c, UnhandledFrames)
    \/ \E c \in Conns : handle_tcp_client_send(c)
    \/ \E c \in Conns : handle_tcp_client_finally(c)
    \/ \E g \in Gens : handle_udp_messages_check(g)
    \/ \E g \in Gens : handle_udp_messages_receive(g, UnhandledDatagrams)

UnhandledSpec == UnhandledInit /\ [][UnhandledNext]_vars

\* ---------------------------------------------------------- writers of sockets

\* a TesterPresent, answered with the ACK alone
WriterFrames == {DiagFrame(client_addr, server_addr, <<62, 128>>)}

WriterDatagrams == {Frame(3, 252, DOIP_VEHICLE_IDENTIFICATION_REQUEST, <<>>)}

WriterInit == InitWith({DocMissing})

\* The whole server: the embedder starts and stops it, two peers connect and
\* send TesterPresent messages, Vehicle Identification Requests arrive at the
\* UDP socket.
WriterNext ==
    \/ start_server(MaxCalls)
    \/ stop_server_begin(MaxCalls)
    \/ stop_server_iterate
    \/ stop_server_clear
    \/ \E g \in Gens : tcp_accept_loop_check(g)
    \/ \E g \in Gens : tcp_accept_loop_accept(g, MaxConns)
    \/ \E g \in Gens : tcp_accept_loop_error(g)
    \/ \E c \in Conns : handle_tcp_client_register(c)
    \/ \E c \in Conns : handle_tcp_client_loop(c)
    \/ \E c \in Conns : handle_tcp_client_receive(c, WriterFrames)
    \/ \E c \in Conns : handle_tcp_client_recv_error(c)
    \/ \E c \in Conns : handle_tcp_client_send(c)
    \/ \E c \in Conns : handle_tcp_client_finally(c)
    \/ \E g \in Gens : handle_udp_messages_check(g)
    \/ \E g \in Gens : handle_udp_messages_receive(g, WriterDatagrams)
    \/ \E g \in Gens : handle_udp_messages_error(g)

WriterSpec == WriterInit /\ [][WriterNext]_vars

\* -------------------------------------------------------------- UDSServer

\* a key of the configuration with its list, or a key that is not there
Key(values) == [present |-> TRUE, values |-> values]
NoKey == [present |-> FALSE, values |-> {}]

\* UDSServer.load_config: the default configuration (lines 41-62)
DefaultUdsConfig ==
    [sessions |-> Key({1, 2, 3}), reset_types |-> Key({1, 2}),
     supported_dids |-> Key({61840, 61841, 61842})]

\* what config_file may name: nothing, a file that cannot be read or parsed,
\* a JSON document with the three lists, a JSON document without them
UdsConfigDocs ==
    {[kind |-> "none", config |-> DefaultUdsConfig],
     [kind |-> "unreadable", config |-> DefaultUdsConfig],
     [kind |-> "json", config |-> [sessions |-> Key({1, 3}), reset_types |-> Key({1}),
                                   supported_dids |-> Key({61840})]],
     [kind |-> "json", config |-> [sessions |-> NoKey, reset_types |-> NoKey,
                                   supported_dids |-> NoKey]]}

\* UDSServer.load_config: json.load of the file, whatever it holds; the
\* default when there is no file or reading it fails
load_config(doc) == IF doc.kind = "json" THEN doc.config ELSE DefaultUdsConfig

\* UDSServer.__init__
UDSServer_init(doc) ==
    [made |-> TRUE, running |-> FALSE, current_session |-> 1,
     security_access_level |-> 0, config |-> load_config(doc), request |-> <<>>,
     response |-> <<>>, event |-> "none", nmsg |-> 0]

\* UDSServer.send_response with the service_executed signal that follows
positive_response(u, response) ==
    [u EXCEPT !.response = response, !.event = "service_executed"]

\* UDSServer.send_negative_response
send_negative_response(u, service_id, nrc) ==
    [u EXCEPT !.response = <<127, service_id, nrc>>, !.event = "error_occurred"]

\* the except clause of process_uds_message: the exception is printed
swallowed(u) == [u EXCEPT !.event = "exception"]

\* UDSServer.handle_diagnostic_session_control: the lookup of the sessions
\* raises KeyError (TypeError) when the configuration has no such list
handle_diagnostic_session_control(u, data) ==
    IF Len(data) < 2 THEN send_negative_response(u, 16, 19)
    ELSE IF ~u.config.sessions.present THEN swallowed(u)
    ELSE IF data[2] \in u.config.sessions.values
         THEN positive_response([u EXCEPT !.current_session = data[2]],
                                <<80, data[2], 0, 50, 1, 244>>)
         ELSE send_negative_response(u, 16, 18)

\* UDSServer.handle_ecu_reset
handle_ecu_reset(u, data) ==
    IF Len(data) < 2 THEN send_negative_response(u, 17, 19)
    ELSE IF ~u.config.reset_types.present THEN swallowed(u)
    ELSE IF data[2] \in u.config.reset_types.values
         THEN positive_response(u, <<81, data[2]>>)
         ELSE send_negative_response(u, 17, 18)

\* UDSServer.handle_read_data_by_identifier
handle_read_data_by_identifier(u, data) ==
    IF Len(data) < 3 THEN send_negative_response(u, 34, 19)
    ELSE IF ~u.config.supported_dids.present THEN swallowed(u)
    ELSE IF data[2] * 256 + data[3] \in u.config.supported_dids.values
         THEN positive_response(u, <<98, data[2], data[3], 1, 2, 3, 4>>)
         ELSE send_negative_response(u, 34, 49)

\* UDSServer.handle_security_access
handle_security_access(u, data) ==
    IF Len(data) < 2 THEN send_negative_response(u, 39, 19)
    ELSE IF data[2] % 2 = 1
         THEN positive_response(u, <<103, data[2], 18, 52, 86, 120>>)
         ELSE positive_response([u EXCEPT !.security_access_level = data[2]],
                                <<103, data[2]>>)

\* UDSServer.process_uds_message on the object u; response and event are
\* what this message caused
uds_message(u, raw_data) ==
    LET v == [u EXCEPT !.request = raw_data, !.response = <<>>, !.event = "none",
                       !.nmsg = u.nmsg + 1]
    IN  IF ~u.running THEN v
        ELSE IF Len(raw_data) < 1 THEN v
        ELSE IF raw_data[1] = 16 THEN handle_diagnostic_session_control(v, raw_data)
        ELSE IF raw_data[1] = 17 THEN handle_ecu_reset(v, raw_data)
        ELSE IF raw_data[1] = 34 THEN handle_read_data_by_identifier(v, raw_data)
        ELSE IF raw_data[1] = 39 THEN handle_security_access(v, raw_data)
        ELSE send_negative_response(v, raw_data[1], 17)

\* UDSServer.start
UDSServer_start ==
    /\ udss.made
    /\ udss' = [udss EXCEPT !.running = TRUE]
    /\ UNCHANGED <<server_vars, tm>>

\* UDSServer.stop
UDSServer_stop ==
    /\ udss.made
    /\ udss' = [udss EXCEPT !.running = FALSE]
    /\ UNCHANGED <<server_vars, tm>>

\* UDSServer.process_uds_message, called with one of messages
process_uds_message(messages) ==
    /\ udss.made
    /\ udss.nmsg < MaxMessages
    /\ \E raw_data \in messages : udss' = uds_message(udss, raw_data)
    /\ UNCHANGED <<server_vars, tm>>

UdsMessages ==
    {<<>>, <<16>>, <<16, 1>>, <<16, 2>>, <<16, 3>>, <<16, 4>>, <<16, 3, 0>>,
     <<17>>, <<17, 1>>, <<34, 241, 144>>, <<39, 1>>, <<39, 2>>, <<62, 0>>}

UdsInit ==
    /\ DoIPServerInit({DocMissing})
    /\ tm = NoTransportManager
    /\ \E doc \in UdsConfigDocs : udss = UDSServer_init(doc)

UdsNext ==
    \/ UDSServer_start
    \/ UDSServer_stop
    \/ process_uds_message(UdsMessages)

UdsServerSpec == UdsInit /\ [][UdsNext]_vars

\* ------------------------------------------------------- TransportManager

\* TransportManager.create_empty_transport_info; "None" is Python's None
create_empty_transport_info ==
    [transport_type |-> "None",
     config_file_path |-> "None",
     config_data |-> "None",
     can_info |-> [device_type |-> "None", channel |-> "None", client_addr |-> "None",
                   server_addr |-> "None", is_fd |-> FALSE],
     eth_info |-> [ip_address |-> "None", interface_name |-> "None",
                   client_addr |-> "None", server_addr |-> "None"]]

\* TransportManager.__init__
TransportManager_init ==
    [made |-> TRUE, transport_info |-> create_empty_transport_info,
     current_transport |-> "None", responsefile |-> "None", pc |-> "idle",
     valid |-> FALSE, log |-> "none", ninit |-> 0]

\* the truth value Python gives a field: None and '' are false
Truthy(v) == v \notin {"None", ""}

\* the texts of the network selection box: nothing, the placeholder, an
\* interface with its address, a text without parentheses
NetTexts ==
    {[kind |-> "empty", name |-> "", ip |-> ""],
     [kind |-> "placeholder", name |-> "No available interfaces", ip |-> ""],
     [kind |-> "name_ip", name |-> "eth0", ip |-> "192.168.1.10"],
     [kind |-> "name", name |-> "lo", ip |-> ""]}

\* the texts of the CAN selection box
CanTexts == {"", "can0", "PCAN_USBBUS1"}

\* the texts of the address fields
AddrTexts == {"", "0x0E80", "0E80"}

\* what select_config_file's dialog returns: '' when it is cancelled
FileTexts == {"", "responses.json"}

\* the embedder's thread is not inside init_doip_server
TmIdle == tm.made /\ (tm.pc = "idle" \/ (ncalls = 1 /\ emb.pc = "idle"))

\* TransportManager.on_net_select_changed, with update_transport_info_eth
on_net_select_changed(selected_text, server_text, client_text) ==
    /\ TmIdle
    /\ IF selected_text.kind \in {"empty", "placeholder"}
       THEN UNCHANGED tm
       ELSE LET ip_address == IF selected_text.kind = "name_ip" THEN selected_text.ip
                              ELSE "N/A"
                server_hex == IF server_text = "" THEN "0x0040" ELSE server_text
                client_hex == IF client_text = "" THEN "0x0E80" ELSE client_text
            IN  tm' = [tm EXCEPT !.transport_info.transport_type = "ETH",
                                 !.transport_info.eth_info =
                                     [ip_address |-> ip_address,
                                      interface_name |-> selected_text.name,
                                      client_addr |-> client_hex,
                                      server_addr |-> server_hex]]
    /\ UNCHANGED <<server_vars, udss>>

\* TransportManager.on_can_select_changed, with update_transport_info_can
on_can_select_changed(selected_text, server_text, client_text, is_fd) ==
    /\ TmIdle
    /\ IF selected_text = ""
       THEN UNCHANGED tm
       ELSE LET server_hex == IF server_text = "" THEN "0x0040" ELSE server_text
                client_hex == IF client_text = "" THEN "0x0E80" ELSE client_text
            IN  tm' = [tm EXCEPT !.transport_info.transport_type = "CAN",
                                 !.transport_info.can_info =
                                     [device_type |-> IF selected_text = "PCAN_USBBUS1"
                                                      THEN "pcan" ELSE "socketcan",
                                      channel |-> selected_text,
                                      client_addr |-> client_hex,
                                      server_addr |-> server_hex,
                                      is_fd |-> is_fd]]
    /\ UNCHANGED <<server_vars, udss>>

\* TransportManager.select_config_file
select_config_file(file_path) ==
    /\ TmIdle
    /\ IF file_path # ""
       THEN tm' = [tm EXCEPT !.transport_info.config_file_path = file_path]
       ELSE UNCHANGED tm
    /\ UNCHANGED <<server_vars, udss>>

\* TransportManager.validate_transport_info: the test of the configuration
\* file is a test for the key, which create_empty_transport_info always makes
validate_transport_info(info) ==
    IF ~Truthy(info.transport_type) THEN FALSE
    ELSE IF "config_file_path" \notin DOMAIN info THEN FALSE
    ELSE IF info.transport_type = "ETH"
         THEN /\ Truthy(info.eth_info.ip_address)
              /\ Truthy(info.eth_info.client_addr)
              /\ Truthy(info.eth_info.server_addr)
    ELSE IF info.transport_type = "CAN"
         THEN /\ Truthy(info.can_info.channel)
              /\ Truthy(info.can_info.client_addr)
              /\ Truthy(info.can_info.server_addr)
    ELSE TRUE

\* lines 229-232 and 235-241 of init_doip_server: an address that starts with
\* 0x becomes an int, any other text stays a str and the format 04X raises
\* ValueError
address_converts(text) == text = "0x0E80" \/ text = "0x0040"

\* the document DoIPServer.load_response_config finds under a response file
\* path: open(None) raises TypeError
ResponseDoc(path) ==
    IF path = "None" THEN [kind |-> "TypeError", items |-> <<>>] ELSE DocHit

\* TransportManager.init_server up to the call of start_server: with valid
\* information of type ETH, init_doip_server makes a new DoIPServer, which
\* becomes current_transport; init_docan_server imports docan_server, a
\* module the repository does not have
init_server ==
    /\ TmIdle
    /\ tm.ninit < MaxInits
    /\ LET info == tm.transport_info
           valid == validate_transport_info(info)
           t == [tm EXCEPT !.ninit = tm.ninit + 1, !.valid = valid]
       IN  IF ~valid
           THEN /\ tm' = [t EXCEPT !.log = "incomplete", !.pc = "idle"]
                /\ UNCHANGED server_vars
           ELSE IF info.transport_type = "CAN"
           THEN /\ tm' = [t EXCEPT !.log = "ImportError", !.pc = "idle"]
                /\ UNCHANGED server_vars
           ELSE IF ~(address_converts(info.eth_info.client_addr)
                     /\ address_converts(info.eth_info.server_addr))
           THEN /\ tm' = [t EXCEPT !.log = "ValueError", !.pc = "idle"]
                /\ UNCHANGED server_vars
           ELSE /\ tm' = [t EXCEPT !.log = "constructed", !.pc = "constructed",
                                   !.current_transport = "DoIPServer",
                                   !.responsefile = info.config_file_path]
                /\ running' = FALSE
                /\ tcp_socket' = 0
                /\ udp_socket' = 0
                /\ clients' = <<>>
                /\ response_config' = load_response_config(
                                          ResponseDoc(info.config_file_path))
                /\ listening' = {}
                /\ udp_open' = {}
                /\ sock_closed' = {}
                /\ h' = [c \in Conns |-> IdleHandler]
                /\ acc' = [g \in Gens |-> IdleThread]
                /\ udp' = [g \in Gens |-> IdleUdp]
                /\ emb' = IdleEmbedder
                /\ ncalls' = 0
                /\ nconn' = 0
                /\ ndgram' = 0
    /\ UNCHANGED udss

\* lines 265-266 of init_doip_server: start_server() of the new DoIPServer
init_doip_server_start ==
    /\ tm.made /\ tm.pc = "constructed" /\ ncalls = 0
    /\ start_server(1)

TmInit ==
    /\ DoIPServerInit({DocMissing})
    /\ udss = NoUDSServer
    /\ tm = TransportManager_init

TmNext ==
    \/ \E text \in NetTexts : \E s \in AddrTexts : \E c \in AddrTexts :
          on_net_select_changed(text, s, c)
    \/ \E text \in CanTexts : \E s \in AddrTexts : \E c \in AddrTexts :
          \E fd \in BOOLEAN : on_can_select_changed(text, s, c, fd)
    \/ \E file_path \in FileTexts : select_config_file(file_path)
    \/ init_server
    \/ init_doip_server_start
    \/ stop_server_clear

TransportSpec == TmInit /\ [][TmNext]_vars

\* ------------------------------------------------------------------ claims

\* the connections accepted so far
Accepted == 1..nconn

\* no listener, no UDP socket and no client socket is open, and no session is
\* registered
AllClosed ==
    /\ listening = {}
    /\ udp_open = {}
    /\ Accepted \subseteq sock_closed
    /\ Live(clients) = {}

\* no thread of the server can take a step of its own: the embedder is outside
\* start_server and stop_server, every handler has ended or waits in recv(), the
\* accept threads have ended or wait in accept()
AtRest ==
    /\ emb.pc = "idle"
    /\ \A c \in Conns : h[c].pc \in {"idle", "recv", "done"}
    /\ \A g \in Gens : acc[g].pc \in {"none", "accept", "stopped"}

\* C2: once start_server() succeeded and stop_server() was the last call made,
\* the server comes to rest only with the TCP listener and the UDP socket
\* closed, every accepted client socket closed and the registry empty.
C2_StopClosesEverything ==
    (AtRest /\ emb.last \in {"stop", "stop_raised"} /\ emb.before \in {"start", "start_noop"})
        => AllClosed

\* C3: whenever the embedder is outside start_server and stop_server,
\* running = False implies that both listening sockets are closed or were never
\* opened and that the registry is empty.
C3_NotRunningMeansClosed ==
    (emb.pc = "idle" /\ ~running)
        => (listening = {} /\ udp_open = {} /\ Live(clients) = {})

\* C4: a stop_server() call made right after another stop_server() call, or on
\* a server that was never started, returns without raising and leaves running
\* False, both sockets closed and the registry empty.
C4_StopIdempotent ==
    [][(/\ emb.pc # "idle" /\ emb'.pc = "idle"
        /\ emb'.call = "stop" /\ emb'.before \in {"none", "stop"})
          => (/\ emb'.last = "stop"
              /\ ~running'
              /\ listening' = {}
              /\ udp_open' = {}
              /\ Live(clients') = {})]_vars

\* C6: while the server runs and stop_server() has not been called, a handler
\* leaves through the except clause only with the exception its own frame
\* raises, and what it has written is the start of what its own frame asks for.
C6_SessionsIndependent ==
    (running /\ ncalls = 1) =>
        \A c \in Conns :
            /\ h[c].exc \in {"none", PlanOf(c).exc}
            /\ h[c].pc \in {"write", "activate", "loop", "finally"} =>
                   /\ Len(h[c].sent) <= Len(PlanOf(c).writes)
                   /\ h[c].sent = SubSeq(PlanOf(c).writes, 1, Len(h[c].sent))

\* the frame the handler of c last read, and whether it was dispatched
ReqOf(c) == receive_frame(h[c].req)

\* the payload type of a frame on the wire
TypeOf(frame) == receive_frame(frame).payload_type

\* the payload of a frame on the wire
PayloadOf(frame) == receive_frame(frame).payload_data

\* the handler of c is through with the frame it read, and no write failed on
\* a socket that was closed under it
Processed(c) ==
    /\ ReqOf(c).dispatched
    /\ h[c].pc \in {"loop", "finally"}
    /\ h[c].exc # "OSError"

\* the positions of the ACK frames among the frames written for the request
Acks(c) == {i \in 1..Len(h[c].sent) : TypeOf(h[c].sent[i]) = DOIP_DIAGNOSTIC_MESSAGE_ACK}

StripSpaces(str) == SelectSeq(str, LAMBDA ch : ch # " ")

\* C1: on every session, a 0x8001 response is written only after the 0x8002
\* ACK of the request it answers: among the frames written for one request a
\* response never stands before the ACK.
C1_AckBeforeResponse ==
    \A c \in Conns : \A i \in 1..Len(h[c].sent) :
        TypeOf(h[c].sent[i]) = DOIP_DIAGNOSTIC_MESSAGE =>
            \E j \in 1..(i - 1) :
                /\ TypeOf(h[c].sent[j]) = DOIP_DIAGNOSTIC_MESSAGE_ACK
                /\ PayloadOf(h[c].sent[j]) = Slice(ReqOf(c).payload_data, 0, 4) \o <<0>>

\* a request has been answered with its ACK and then its response
C1_Witness ==
    \E c \in Conns :
        /\ Len(h[c].sent) = 2
        /\ TypeOf(h[c].sent[1]) = DOIP_DIAGNOSTIC_MESSAGE_ACK
        /\ TypeOf(h[c].sent[2]) = DOIP_DIAGNOSTIC_MESSAGE

\* C5: for every catalog entry (req, res) with a response, a Diagnostic Message
\* whose user data is req is answered, whatever its address type, with a 0x8001
\* response whose UDS payload is res.
C5_CatalogEntryAnswers ==
    \A c \in Conns :
        LET f == ReqOf(c)
            key == Upper(BytesHex(SliceFrom(f.payload_data, 4)))
        IN  (/\ Processed(c)
             /\ f.payload_type = DOIP_DIAGNOSTIC_MESSAGE
             /\ Len(f.payload_data) >= 4
             /\ key \in DOMAIN response_config
             /\ response_config[key] # <<>>)
            => \E i \in 1..Len(h[c].sent) :
                  /\ TypeOf(h[c].sent[i]) = DOIP_DIAGNOSTIC_MESSAGE
                  /\ Upper(BytesHex(SliceFrom(PayloadOf(h[c].sent[i]), 4)))
                         = StripSpaces(response_config[key])

\* C8: a 0x0001 request on a TCP session is answered on that session with one
\* 0x0004 frame VIN | server_addr | EID | GID | further_action, and the session
\* is not closed by it.
C8_VehicleIdOverTcp ==
    \A c \in Conns :
        (Processed(c) /\ ReqOf(c).payload_type = DOIP_VEHICLE_IDENTIFICATION_REQUEST)
            => /\ h[c].sent = <<encode(DOIP_VEHICLE_IDENTIFICATION_RESPONSE,
                                       vehicle_identification_payload)>>
               /\ h[c].exc = "none"

\* C9: a TCP frame whose version and inverse version do not XOR to 0xFF is
\* dispatched to no handler: nothing is written for it and the session is closed.
C9_BadVersionRejected ==
    \A c \in Conns :
        (/\ Len(h[c].req) >= DOIP_HEADER_SIZE
         /\ h[c].req[1] + h[c].req[2] # 255
         /\ h[c].pc \in {"write", "activate", "loop", "finally"})
            => (h[c].sent = <<>> /\ h[c].pc = "finally")

\* C10 as claimed: every Diagnostic Message the handler is through with has
\* been answered with exactly one ACK.
C10_AlwaysOneAck ==
    \A c \in Conns :
        (Processed(c) /\ ReqOf(c).payload_type = DOIP_DIAGNOSTIC_MESSAGE)
            => Cardinality(Acks(c)) = 1

\* C10 as amended: a Diagnostic Message never gets more than one ACK; once the
\* handler is through with it, a payload of at least 4 bytes has got exactly
\* one ACK, written first, with the request's source and target address and
\* code 0x00, and a shorter payload has got nothing.
C10_AckWhenAddressed ==
    \A c \in Conns :
        LET f == ReqOf(c)
        IN  (f.dispatched /\ f.payload_type = DOIP_DIAGNOSTIC_MESSAGE) =>
                /\ Cardinality(Acks(c)) <= 1
                /\ Processed(c) =>
                      IF Len(f.payload_data) >= 4
                      THEN /\ Acks(c) = {1}
                           /\ PayloadOf(h[c].sent[1]) = Slice(f.payload_data, 0, 4) \o <<0>>
                      ELSE h[c].sent = <<>>

\* a suppressed TesterPresent to an address that is not the server's, from a
\* tester that is not the expected one, has got its ACK and nothing else
C10_Witness ==
    \E c \in Conns :
        /\ Processed(c)
        /\ h[c].req = DiagFrame(3840, 4660, <<62, 128>>)
        /\ Len(h[c].sent) = 1
        /\ Acks(c) = {1}

\* a datagram with a DoIP header whose version pair is valid and whose
\* declared length is the length of what follows the header
WellFormed(data) ==
    /\ Len(data) >= DOIP_HEADER_SIZE
    /\ data[1] + data[2] = 255
    /\ unpack_BBHI(Slice(data, 0, DOIP_HEADER_SIZE)).payload_length
           = Len(data) - DOIP_HEADER_SIZE

\* C7: once the UDP thread is through with a well-formed datagram of payload
\* type 0x0001, it has sent exactly one 0x0004 datagram back whose payload is
\* VIN | server_addr | EID | GID | further_action.
C7_VehicleIdOverUdp ==
    \A g \in Gens :
        (/\ udp[g].pc \in {"check", "recv", "stopped"}
         /\ WellFormed(udp[g].dgram)
         /\ TypeOf(udp[g].dgram) = DOIP_VEHICLE_IDENTIFICATION_REQUEST
         /\ udp[g].exc # "OSError")
            => udp[g].sent = <<encode(DOIP_VEHICLE_IDENTIFICATION_RESPONSE,
                                      vehicle_identification_payload)>>

\* the user data of the Diagnostic Message the handler of c last read
UserData(c) == SliceFrom(ReqOf(c).payload_data, 4)

\* the handler of c is through with a Diagnostic Message that carries user
\* data for which the catalog has no entry
DefaultAnswered(c) ==
    /\ Processed(c)
    /\ ReqOf(c).payload_type = DOIP_DIAGNOSTIC_MESSAGE
    /\ Len(ReqOf(c).payload_data) > 4
    /\ Upper(BytesHex(UserData(c))) \notin DOMAIN response_config

\* the handler of c wrote the ACK and then one 0x8001 response with the UDS
\* payload uds, and no exception ended the session
AnsweredWith(c, uds) ==
    /\ Len(h[c].sent) = 2
    /\ TypeOf(h[c].sent[1]) = DOIP_DIAGNOSTIC_MESSAGE_ACK
    /\ TypeOf(h[c].sent[2]) = DOIP_DIAGNOSTIC_MESSAGE
    /\ SliceFrom(PayloadOf(h[c].sent[2]), 4) = uds
    /\ h[c].exc = "none"

\* the request starts with the four bytes 31 01 b2 b3
StartsWithRoutine(request, b2, b3) ==
    Len(request) >= 4 /\ SubSeq(request, 1, 4) = <<49, 1, b2, b3>>

\* no rule of the synthesis table before the last one matches the request
NoRuleMatches(request) ==
    /\ request[1] \notin {62, 55}
    /\ ~(request[1] \in {16, 39, 17, 52, 54} /\ Len(request) >= 2)
    /\ ~(request[1] = 34 /\ Len(request) >= 3)
    /\ ~StartsWithRoutine(request, 221, 2)
    /\ ~StartsWithRoutine(request, 255, 0)

\* C11: a request that is not in the catalog and matches no rule of the
\* synthesis table before the last one is answered with 7F [sid] 11, and no
\* exception ends the session.
C11_FallbackNegativeResponse ==
    \A c \in Conns :
        (DefaultAnswered(c) /\ NoRuleMatches(UserData(c)))
            => AnsweredWith(c, <<127, UserData(c)[1], 17>>)

\* C12: a request with sid 0x10 that is not in the catalog is answered with
\* 50 [sub] 00 32 01 F4 when it has at least 2 bytes, and with 7F 10 11 when
\* it is the single byte 10.
C12_SessionControlRule ==
    \A c \in Conns :
        (DefaultAnswered(c) /\ UserData(c)[1] = 16)
            => AnsweredWith(c, IF Len(UserData(c)) >= 2
                               THEN <<80, UserData(c)[2], 0, 50, 1, 244>>
                               ELSE <<127, 16, 17>>)

AddressTypes == {"physical", "functional", "unknown"}

\* the default synthesizer returns nothing for 3E and for 3E [sub], for every
\* address type and every sub-function byte
TesterPresentSuppressed ==
    \A address_type \in AddressTypes :
        /\ generate_default_diagnostic_response(<<62>>, address_type) = None
        /\ \A sub \in 0..255 :
              generate_default_diagnostic_response(<<62, sub>>, address_type) = None

UnknownIsPhysical ==
    \A doc \in ConfigDocs : \A request \in UdsRequests \ {<<>>} :
        generate_diagnostic_response(load_response_config(doc), request, "unknown")
            = generate_diagnostic_response(load_response_config(doc), request, "physical")

C15_RoutingActivation ==
    \A c \in Conns :
        (/\ running /\ ncalls = 1
         /\ Processed(c)
         /\ ReqOf(c).payload_type = DOIP_ROUTING_ACTIVATION_REQUEST
         /\ Len(ReqOf(c).payload_data) >= 4)
            => /\ h[c].sent = <<encode(DOIP_ROUTING_ACTIVATION_RESPONSE,
                                       Slice(ReqOf(c).payload_data, 0, 2)
                                           \o pack_H(server_addr) \o <<16, 0, 0, 0, 0>>)>>
               /\ EntryOf(clients, c) # {}
               /\ \A i \in EntryOf(clients, c) : clients[i].routing_activated

\* C16: the step in which a handler reads a Routing Activation Request with
\* fewer than 4 payload bytes writes nothing, closes nothing, leaves the
\* registry with every routing_activated flag as it was, and takes the
\* handler back to the head of its loop.
C16_ShortRoutingIgnored ==
    [][\A c \in Conns :
          LET f == receive_frame(h'[c].req)
          IN  (/\ h[c].pc = "recv" /\ h'[c].pc # "recv"
               /\ f.dispatched
               /\ f.payload_type = DOIP_ROUTING_ACTIVATION_REQUEST
               /\ Len(f.payload_data) < 4)
                  => /\ h'[c].sent = <<>>
                     /\ h'[c].exc = "none"
                     /\ h'[c].pc = "loop"
                     /\ clients' = clients
                     /\ sock_closed' = sock_closed]_vars

\* an activated session has read a short Routing Activation Request and is
\* still activated and open
C16_Witness ==
    \E c \in Conns :
        /\ h[c].pc = "loop"
        /\ h[c].req = Frame(3, 252, DOIP_ROUTING_ACTIVATION_REQUEST, pack_H(client_addr))
        /\ h[c].sent = <<>>
        /\ c \notin sock_closed
        /\ \E i \in EntryOf(clients, c) : clients[i].routing_activated

\* C17: every 0x8001 frame written for a request carries server_addr, the
\* request's source address and then the responder's bytes for the request;
\* none is written when the responder gives nothing or no bytes.
C17_ResponseAddressing ==
    \A c \in Conns : \A i \in 1..Len(h[c].sent) :
        LET f == ReqOf(c)
            r == generate_diagnostic_response(
                     response_config, UserData(c),
                     address_type_of(unpack_H(Slice(f.payload_data, 2, 4))))
        IN  TypeOf(h[c].sent[i]) = DOIP_DIAGNOSTIC_MESSAGE =>
                /\ f.payload_type = DOIP_DIAGNOSTIC_MESSAGE
                /\ r.kind = "bytes" /\ r.data # <<>>
                /\ PayloadOf(h[c].sent[i])
                       = pack_H(server_addr) \o Slice(f.payload_data, 0, 2) \o r.data

\* a functionally addressed request of another tester has been answered from
\* the physical address to that tester
C17_Witness ==
    \E c \in Conns :
        /\ h[c].req = DiagFrame(3840, server_addr_func, <<16, 3>>)
        /\ Len(h[c].sent) = 2
        /\ Slice(PayloadOf(h[c].sent[2]), 0, 4) = pack_H(server_addr) \o pack_H(3840)

\* the keys of the registry, in the order of the dict's entries
Ids(entries) == [i \in 1..Len(entries) |-> entries[i].id]

\* C18: while a thread is inside an iteration over the registry (stop_server
\* between two turns of its loop, a handler between two turns of its search),
\* no step of another thread inserts into the registry or deletes from it.
C18_RegistryExclusive ==
    [][/\ (emb.pc = "stop_iter" /\ emb' = emb) => Ids(clients') = Ids(clients)
       /\ \A c \in Conns :
             (h[c].pc = "activate" /\ h'[c] = h[c]) => Ids(clients') = Ids(clients)]_vars

\* C19: a connection that was accepted before a stop_server call ended is not
\* served any more: its handler is never again waiting for a frame, writing
\* or searching the registry on a socket that is still open.
C19_StoppedConnectionsEnd ==
    \A c \in 1..emb.old :
        h[c].pc \in {"recv", "write", "activate"} => c \in sock_closed

\* C20: at most one accept thread is in accept() on the server's current TCP
\* socket and at most one UDP thread is in recvfrom() on its current UDP
\* socket.
C20_OneLoopPerSocket ==
    /\ Cardinality({g \in Gens : acc[g].pc = "accept" /\ acc[g].sock = tcp_socket}) <= 1
    /\ Cardinality({g \in Gens : udp[g].pc = "recv" /\ udp[g].sock = udp_socket}) <= 1

\* C21: a handler reads the next header only when every frame answering the
\* request before it is written; it reads a request only while waiting in
\* recv with nothing written for it; and every frame it writes is the next
\* frame of the answer to the request it last read.
C21_RequestsInOrder ==
    [][\A c \in Conns :
          /\ (h[c].pc = "loop" /\ h'[c].pc = "recv" /\ h[c].req # <<>>)
                 => h[c].sent = PlanOf(c).writes
          /\ (h'[c].req # h[c].req /\ h'[c].req # <<>>)
                 => (h[c].pc = "recv" /\ h[c].sent = <<>>)
          /\ Len(h'[c].sent) > Len(h[c].sent)
                 => /\ h[c].pc = "write"
                    /\ h'[c].req = h[c].req
                    /\ h'[c].sent = Append(h[c].sent, PlanOf(c).writes[Len(h[c].sent) + 1])]_vars

\* the second request of a session has got its ACK and its response
C21_Witness ==
    \E c \in Conns :
        /\ h[c].nrecv = 2
        /\ h[c].pc = "loop"
        /\ Len(h[c].sent) = 2
        /\ h[c].sent = PlanOf(c).writes

\* the payload types and payloads of the round trip
CodecTypes == {0, 1, 4, 5, 6, 255, 256, 32769, 32770, 32771, 65535}

CodecPayloads ==
    UNION {[1..n -> {0, 3, 255}] : n \in 0..3} \cup {[i \in 1..300 |-> i % 256]}

\* what the receive path reads back from an encoded frame is what was encoded
RoundTrip ==
    \A payload_type \in CodecTypes : \A payload_data \in CodecPayloads :
        receive_frame(encode(payload_type, payload_data))
            = [dispatched |-> TRUE, payload_type |-> payload_type,
               payload_data |-> payload_data]

\* C22: a frame made by send_doip_message is read back by the receive path as
\* the same payload type and payload; every frame a handler has written
\* starts with 03 FC, declares the number of bytes that follow its header,
\* and is read back whole.
C22_CodecRoundTrip ==
    /\ RoundTrip
    /\ \A c \in Conns : \A i \in 1..Len(h[c].sent) :
          LET frame == h[c].sent[i]
          IN  /\ Len(frame) >= DOIP_HEADER_SIZE
              /\ frame[1] = 3 /\ frame[2] = 252
              /\ unpack_BBHI(Slice(frame, 0, DOIP_HEADER_SIZE)).payload_length
                     = Len(frame) - DOIP_HEADER_SIZE
              /\ receive_frame(frame).dispatched
              /\ Len(PayloadOf(frame)) = Len(frame) - DOIP_HEADER_SIZE

\* the 18-byte response to a SecurityAccess seed request is on the wire with
\* its 22 payload bytes declared
C22_Witness ==
    \E c \in Conns :
        /\ Len(h[c].sent) = 2
        /\ Len(h[c].sent[2]) = DOIP_HEADER_SIZE + 22
        /\ Slice(h[c].sent[2], 0, DOIP_HEADER_SIZE) = <<3, 252, 128, 1, 0, 0, 0, 22>>

\* a missing file, a file that is not JSON and a list with an item that lacks
\* a key all leave the catalog empty
LoadFailureLeavesEmpty ==
    \A doc \in {DocMissing, DocNotJson, DocNoRes} : load_response_config(doc) = EmptyConfig

\* C29: a document that cannot be loaded leaves the catalog empty, and with an
\* empty catalog every request is answered as the default synthesizer says:
\* with its bytes, with the ACK only when it returns nothing, and with the
\* ACK and its exception when it raises.
C29_LoadFailureNotFatal ==
    /\ LoadFailureLeavesEmpty
    /\ \A c \in Conns :
          LET f == ReqOf(c)
              r == generate_default_diagnostic_response(
                       UserData(c), address_type_of(unpack_H(Slice(f.payload_data, 2, 4))))
          IN  (/\ response_config = EmptyConfig
               /\ Processed(c)
               /\ f.payload_type = DOIP_DIAGNOSTIC_MESSAGE
               /\ Len(f.payload_data) > 4)
                  => IF r.kind = "bytes" THEN AnsweredWith(c, r.data)
                     ELSE Len(h[c].sent) = 1 /\ h[c].exc = IF r.kind = "None" THEN "none"
                                                           ELSE r.kind

\* with an empty catalog the request 10 03, which the unloadable document
\* lists, has got the default answer
C29_Witness ==
    \E c \in Conns :
        /\ response_config = EmptyConfig
        /\ h[c].req = DiagFrame(client_addr, server_addr, <<16, 3>>)
        /\ AnsweredWith(c, <<80, 3, 0, 50, 1, 244>>)

\* C30: every key and every response of the loaded catalog converts from hex
\* to bytes.
C30_CatalogIsHex ==
    \A key \in DOMAIN response_config :
        fromhex(key).ok /\ fromhex(response_config[key]).ok

\* C24: whenever the embedder is outside start_server and stop_server, the
\* status emitted last is running if and only if the running flag is true.
C24_StatusTracksRunning ==
    emb.pc = "idle" => (emb.status = "running" <=> running)

\* C25: a start_server() call in which a bind raised ends without raising,
\* with the status error emitted, running false, the sockets it had made
\* closed and no accept or UDP thread spawned for them.
C25_BindFailureCleansUp ==
    [][(emb.pc # "idle" /\ emb'.pc = "idle" /\ emb'.call = "start")
          => /\ emb'.last = "start_failed"
             /\ emb'.status = "error"
             /\ ~running'
             /\ tcp_socket' \notin listening'
             /\ udp_socket' \notin udp_open'
             /\ acc'[tcp_socket'].pc = "none"
             /\ udp'[tcp_socket'].pc = "none"]_vars

\* C23: for a session whose handler has ended, one client_connected and then
\* one client_disconnected event have been emitted.
C23_DisconnectedEvent ==
    \A c \in Conns :
        h[c].pc = "done" => h[c].events = <<"client_connected", "client_disconnected">>

\* C26: the step in which the handler of a session that failed with an
\* exception closes its socket and leaves the registry changes nothing else:
\* the running flag, the accept and UDP threads and every other handler are
\* as before, and no other session's search of the registry fails at its next
\* turn because of it.
C26_FailureIsolation ==
    [][\A c \in Conns :
          (h[c].pc = "finally" /\ h[c].exc # "none" /\ h'[c].pc = "done")
              => /\ running' = running
                 /\ acc' = acc
                 /\ udp' = udp
                 /\ \A d \in Conns \ {c} :
                       /\ h'[d] = h[d]
                       /\ h[d].pc = "activate"
                              => iter_next(clients', h'[d].it).kind # "RuntimeError"]_vars

\* the sessions that are in the registry
Registered(entries) == {entries[i].id : i \in Live(entries)}

\* C27: when the peer has closed the connection, at a frame boundary or inside
\* a frame, nothing was dispatched or written for the partial frame, and the
\* step that ends the handler closes the socket and removes the session;
\* after it the registry holds exactly the sessions whose handler thread is
\* alive.
C27_PeerCloseEndsSession ==
    [][\A c \in Conns :
          (/\ h[c].pc = "finally" /\ h[c].exc = "none" /\ ~ReqOf(c).dispatched
           /\ h'[c].pc = "done")
              => /\ h[c].sent = <<>>
                 /\ c \in sock_closed'
                 /\ Registered(clients')
                        = {d \in Conns : h'[d].pc \in {"spawned", "loop", "recv", "write",
                                                       "activate", "finally"}}]_vars

\* the payload type in the header of a datagram
HeaderType(data) == unpack_BBHI(Slice(data, 0, DOIP_HEADER_SIZE)).payload_type

\* C28: the step in which a handler reads a frame of a payload type other
\* than 0x0001, 0x0005 and 0x8001 writes nothing, closes nothing, leaves the
\* registry with its flags as it was and takes the handler back to the head
\* of its loop; the step in which the UDP thread receives a datagram of a
\* payload type other than 0x0001 sends nothing, changes no session and
\* takes the thread back to the head of its loop.
C28_UnhandledTypesIgnored ==
    [][/\ \A c \in Conns :
             LET f == receive_frame(h'[c].req)
             IN  (/\ h[c].pc = "recv" /\ h'[c].pc # "recv"
                  /\ f.dispatched
                  /\ f.payload_type \notin {DOIP_VEHICLE_IDENTIFICATION_REQUEST,
                                            DOIP_ROUTING_ACTIVATION_REQUEST,
                                            DOIP_DIAGNOSTIC_MESSAGE})
                     => /\ h'[c].sent = <<>>
                        /\ h'[c].exc = "none"
                        /\ h'[c].pc = "loop"
                        /\ clients' = clients
                        /\ sock_closed' = sock_closed
       /\ \A g \in Gens :
             (/\ ndgram' # ndgram /\ udp'[g] # udp[g]
              /\ Len(udp'[g].dgram) >= DOIP_HEADER_SIZE
              /\ HeaderType(udp'[g].dgram) # DOIP_VEHICLE_IDENTIFICATION_REQUEST)
                 => /\ udp'[g].sent = <<>>
                    /\ udp'[g].pc = "check"
                    /\ clients' = clients
                    /\ h' = h
                    /\ udp_open' = udp_open
                    /\ sock_closed' = sock_closed]_vars

\* an activated session has read a frame of type 0x8002 and is still
\* activated and open, with nothing written, and the UDP thread is back at
\* its loop after a datagram of type 0x0005
C28_Witness ==
    /\ running
    /\ \E c \in Conns :
          /\ h[c].pc = "loop"
          /\ TypeOf(h[c].req) = DOIP_DIAGNOSTIC_MESSAGE_ACK
          /\ h[c].sent = <<>>
          /\ c \notin sock_closed
          /\ \E i \in EntryOf(clients, c) : clients[i].routing_activated
    /\ \E g \in Gens :
          /\ udp[g].pc = "check"
          /\ udp[g].dgram = RoutingFrame
          /\ udp[g].sent = <<>>

\* the positive response of the synthesis table for a request, <<>> when no
\* positive rule of the table is for it
SynthesisTable(request) ==
    LET n == Len(request)
        sid == request[1]
    IN  IF sid = 34 /\ n >= 3 THEN <<98, request[2], request[3], 1, 2, 3, 4>>
        ELSE IF sid = 39 /\ n >= 2 /\ request[2] % 2 = 1
             THEN <<103, request[2], 18, 52, 86, 120, 154, 188, 222, 240,
                    18, 52, 86, 120, 154, 188, 222, 240>>
        ELSE IF sid = 39 /\ n >= 2 THEN <<103, request[2]>>
        ELSE IF sid = 17 /\ n >= 2 THEN <<81, request[2]>>
        ELSE IF sid = 52 /\ n >= 2 THEN <<116, 64, 0, 0, 63, 2>>
        ELSE IF sid = 54 /\ n >= 2 THEN <<118, request[2]>>
        ELSE IF sid = 55 THEN <<119>>
        ELSE IF StartsWithRoutine(request, 221, 2) THEN <<113, 1, 221, 2, 0>>
        ELSE IF StartsWithRoutine(request, 255, 0) THEN <<113, 1, 255, 0, 0>>
        ELSE <<>>

\* requests of 1 to 5 bytes for the services of the table
TableBytes == {0, 1, 2, 221, 255}
TableRequests ==
    UNION {{<<sid>> \o t : sid \in {34, 39, 17, 52, 54, 55, 49},
                           t \in [1..n -> TableBytes]} : n \in 0..4}

\* the default synthesizer returns the response of the table, for every
\* request of TableRequests the table has a positive rule for and every
\* address type
FollowsSynthesisTable ==
    \A request \in TableRequests : \A address_type \in AddressTypes :
        SynthesisTable(request) # <<>>
            => generate_default_diagnostic_response(request, address_type)
                   = Bytes(SynthesisTable(request))

\* C31: a request that is not in the catalog and has a positive rule in the
\* synthesis table is answered with the response of that rule, whatever the
\* target address; the synthesizer called by value gives the same.
C31_PositiveDefaults ==
    /\ FollowsSynthesisTable
    /\ \A c \in Conns :
          (DefaultAnswered(c) /\ SynthesisTable(UserData(c)) # <<>>)
              => AnsweredWith(c, SynthesisTable(UserData(c)))

\* a SecurityAccess seed request to the functional address was answered with
\* the 16 seed bytes
C31_Witness ==
    \E c \in Conns :
        /\ DefaultAnswered(c)
        /\ UserData(c) = <<39, 1>>
        /\ address_type_of(unpack_H(Slice(ReqOf(c).payload_data, 2, 4))) = "functional"
        /\ AnsweredWith(c, <<103, 1>> \o SecuritySeed \o SecuritySeed)

DiagnosticDone(c) ==
    /\ Processed(c)
    /\ ReqOf(c).payload_type = DOIP_DIAGNOSTIC_MESSAGE
    /\ Len(ReqOf(c).payload_data) >= 4

\* the registry entry of session c has routing_activated set
Activated(c) == \E i \in EntryOf(clients, c) : clients[i].routing_activated

\* C33: what a handler writes for a Diagnostic Message is the ACK and the
\* response that follow from the payload and the catalog alone; an activated
\* session and one that is not activated, through with the same message, have
\* written the same frames.
C33_DiagnosticsNeedNoActivation ==
    /\ \A c \in Conns :
          DiagnosticDone(c)
              => h[c].sent = handle_diagnostic_message(response_config,
                                                       ReqOf(c).payload_data).writes
    /\ \A c \in Conns : \A d \in Conns :
          (/\ DiagnosticDone(c) /\ DiagnosticDone(d)
           /\ ReqOf(c).payload_data = ReqOf(d).payload_data
           /\ Activated(c) /\ ~Activated(d))
              => h[c].sent = h[d].sent

\* an activated session and a registered session that never asked for
\* activation have both been answered, ACK and response, for the same message
C33_Witness ==
    \E c \in Conns : \E d \in Conns :
        /\ DiagnosticDone(c) /\ DiagnosticDone(d)
        /\ ReqOf(c).payload_data = ReqOf(d).payload_data
        /\ Activated(c)
        /\ EntryOf(clients, d) # {} /\ ~Activated(d) /\ h[d].nrecv = 1
        /\ Len(h[c].sent) = 2 /\ h[c].sent = h[d].sent
        /\ TypeOf(h[c].sent[2]) = DOIP_DIAGNOSTIC_MESSAGE

\* C34: a call of start_server on a server whose running flag is true changes
\* no socket, no flag, no thread, no session and no registry entry, and emits
\* no status.
C34_StartOnRunningIsNoop ==
    [][(running /\ ncalls' # ncalls /\ emb'.call = "start")
          => /\ UNCHANGED <<running, tcp_socket, udp_socket, clients, listening,
                            udp_open, sock_closed, h, acc, udp, response_config>>
             /\ emb'.status = emb.status
             /\ emb'.pc = "idle"]_vars

\* start_server has returned at once on a running server with a session open
C34_Witness ==
    /\ emb.last = "start_noop"
    /\ emb.before = "start"
    /\ running
    /\ emb.status = "running"
    /\ acc[tcp_socket].pc # "none"
    /\ \E c \in Conns : h[c].pc = "recv" /\ EntryOf(clients, c) # {}

\* the 0x0006 frame that answers the Routing Activation Request the handler of
\* c last read
ActivationResponse(c) ==
    encode(DOIP_ROUTING_ACTIVATION_RESPONSE,
           Slice(ReqOf(c).payload_data, 0, 2) \o pack_H(server_addr) \o <<16, 0, 0, 0, 0>>)

\* the handler of c last read a Routing Activation Request of at least 4
\* payload bytes
ActivationRequested(c) ==
    /\ ReqOf(c).dispatched
    /\ ReqOf(c).payload_type = DOIP_ROUTING_ACTIVATION_REQUEST
    /\ Len(ReqOf(c).payload_data) >= 4

\* C35: a session is registered with routing_activated false; the flag turns
\* true only in a step of the session's own handler that ends the handling of
\* a Routing Activation Request of at least 4 payload bytes, after the 0x0006
\* response was written; while the registry entry exists a true flag stays
\* true; an activated session that has written its answer to a further
\* request has written the same 0x0006 frame with code 0x10.
C35_RoutingActivatedFlag ==
    [][\A c \in Conns :
          /\ (EntryOf(clients, c) = {} /\ EntryOf(clients', c) # {})
                 => \A i \in EntryOf(clients', c) : ~clients'[i].routing_activated
          /\ (~Activated(c) /\ Activated(c)')
                 => /\ ActivationRequested(c)'
                    /\ h[c].pc \in {"write", "activate"}
                    /\ h'[c].pc = "loop"
                    /\ h'[c].req = h[c].req
                    /\ h'[c].sent = <<ActivationResponse(c)>>
          /\ (Activated(c) /\ EntryOf(clients', c) # {}) => Activated(c)'
          /\ (/\ Activated(c) /\ ActivationRequested(c)
              /\ h[c].pc = "write" /\ h'[c].pc \in {"loop", "activate"})
                 => /\ h'[c].sent = <<ActivationResponse(c)>>
                    /\ Activated(c)']_vars

\* a session activated by its first request has written the answer to its
\* second Routing Activation Request and is in the registry loop, next to a
\* registered session that is not activated
C35_Witness ==
    \E c \in Conns : \E d \in Conns \ {c} :
        /\ Activated(c) /\ ActivationRequested(c)
        /\ h[c].nrecv = 2 /\ h[c].pc = "activate"
        /\ h[c].sent = <<ActivationResponse(c)>>
        /\ EntryOf(clients, d) # {} /\ ~Activated(d)

\* the handler of c last read a Diagnostic Message whose payload is the two
\* addresses and nothing else
AddressesOnly(c) ==
    /\ ReqOf(c).dispatched
    /\ ReqOf(c).payload_type = DOIP_DIAGNOSTIC_MESSAGE
    /\ Len(ReqOf(c).payload_data) = 4

\* C36: the step in which a handler ends the handling of a Diagnostic Message
\* of exactly 4 payload bytes, its socket not closed under it, leaves the ACK
\* source | target | 00 as the only frame written, closes nothing, leaves
\* the registry alone and takes the handler back to the head of its loop; for
\* no Diagnostic Message a handler reads is the responder called with an
\* empty request.
C36_EmptyUserData ==
    [][\A c \in Conns :
          /\ (/\ AddressesOnly(c) /\ h[c].pc = "write" /\ h'[c].pc # "write"
              /\ h'[c].exc # "OSError")
                 => /\ h'[c].sent = <<encode(DOIP_DIAGNOSTIC_MESSAGE_ACK,
                                             ReqOf(c).payload_data \o <<0>>)>>
                    /\ h'[c].pc = "loop"
                    /\ h'[c].exc = "none"
                    /\ sock_closed' = sock_closed
                    /\ clients' = clients
          /\ (ReqOf(c).dispatched /\ ReqOf(c).payload_type = DOIP_DIAGNOSTIC_MESSAGE)'
                 => LET called == responder_requests(ReqOf(c).payload_data)'
                    IN  \A i \in 1..Len(called) : called[i] # <<>>]_vars

\* a session is back at its loop, open and registered, with the ACK alone
\* written for a Diagnostic Message of 4 payload bytes to the functional
\* address
C36_Witness ==
    \E c \in Conns :
        /\ AddressesOnly(c)
        /\ ReqOf(c).payload_data = pack_H(client_addr) \o pack_H(server_addr_func)
        /\ h[c].pc = "loop"
        /\ Len(h[c].sent) = 1
        /\ TypeOf(h[c].sent[1]) = DOIP_DIAGNOSTIC_MESSAGE_ACK
        /\ c \notin sock_closed
        /\ EntryOf(clients, c) # {}
        /\ running

\* the sessions the configuration of the UDSServer lists
SupportedSessions == IF udss.config.sessions.present THEN udss.config.sessions.values ELSE {}

\* C37: before any message current_session is 0x01; a step that changes it is
\* the handling, on a running server, of a 0x10 request of at least 2 bytes
\* whose session byte is a configured session, and sets it to that byte; on
\* a stopped server a message changes nothing; on a running server a request
\* 10 alone is answered 7F 10 13 and a request for a session that is not
\* configured 7F 10 12, both leaving current_session as it was.
C37_UdsSessionState ==
    [][LET data == udss'.request
           handled == udss'.nmsg # udss.nmsg
       IN  /\ udss'.nmsg = 0 => udss'.current_session = 1
           /\ udss'.current_session # udss.current_session
                 => /\ handled /\ udss.running
                    /\ Len(data) >= 2 /\ data[1] = 16
                    /\ data[2] \in SupportedSessions
                    /\ udss'.current_session = data[2]
           /\ (handled /\ ~udss.running)
                 => udss'.current_session = udss.current_session /\ udss'.response = <<>>
           /\ (handled /\ udss.running /\ data = <<16>>)
                 => /\ udss'.current_session = udss.current_session
                    /\ udss'.response = <<127, 16, 19>>
           /\ (handled /\ udss.running /\ Len(data) >= 2 /\ data[1] = 16
                 /\ data[2] \notin SupportedSessions)
                 => /\ udss'.current_session = udss.current_session
                    /\ udss'.response = <<127, 16, 18>>]_vars

\* C38: a call of init_server made while config_file_path is None finds the
\* transport information not valid, leaves current_transport as it was and
\* touches no DoIPServer; no start_server call is made on a server that was
\* given no response file.
C38_NoServerWithoutConfigFile ==
    [][/\ (tm'.ninit # tm.ninit /\ tm.transport_info.config_file_path = "None")
             => /\ ~tm'.valid
                /\ tm'.current_transport = tm.current_transport
                /\ tm'.pc = "idle"
                /\ UNCHANGED server_vars
       /\ ncalls' > ncalls => tm.responsefile # "None"]_vars

====
